---- MODULE Spec2Model ----
(***************************************************************************)
(* The Redis-backed cache layer of Kronk-Backend (app/settings/my_redis.py *)
(* CacheManager) together with the route handlers and ORM hooks that call  *)
(* it.  The store is modelled by the effect of each Redis command on the   *)
(* keyspace; every key family of CacheManager.__init__ is one field of the *)
(* record `redis`.  The websocket registry (app/settings/my_websocket.py   *)
(* ConnectionManager) is the record `manager`, the accepted websockets are *)
(* `sockets`, and the notification task of app/my_taskiq is an operator    *)
(* over both.                                                              *)
(*                                                                         *)
(* Identifiers.  A post is a UUID p in PostIds.  The code writes two       *)
(* different strings for it: f"{new_post.id}" (the dashed form, Str(p))    *)
(* and new_post.id.hex (32 hex digits, Hex(p)).  Both are encoded as       *)
(* integers so that the integer order is the byte order Redis uses to      *)
(* break score ties ('-' sorts before every hex digit).  User ids reach    *)
(* the cache as .hex strings only and are the integers of Users.           *)
(***************************************************************************)
EXTENDS Integers, Sequences, FiniteSets, TLC

\* ------------------------------------------------------------------ bounds
MaxUsers == 2
MaxPosts == 2
MaxOps == 3
MaxCount == 1
MaxBodies == 1
MaxStart == 2

MaxSockets == 2

MaxAge == 3
MaxTotal == 9
MaxBatch == 4

\* ------------------------------------------------------- program constants
GtAmount == 180
GtTrimMax == 180
HtEnd == 59
UtEnd == 4000
ReadEnd == 19
DecodeResponses == TRUE

Users == 1..MaxUsers
PostIds == 1..MaxPosts
Counters == {"comments", "reposts", "quotes", "likes", "dislikes", "views"}

Str(p) == 2 * p
Hex(p) == 2 * p + 1
UuidOf(s) == s \div 2
IdStrings == {Str(p) : p \in PostIds} \cup {Hex(p) : p \in PostIds}
\* str(UserModel instance), "🚧 UserModel: <username>": never a user id
ModelStr(u) == 0 - u

Min(a, b) == IF a < b THEN a ELSE b
Max(a, b) == IF a > b THEN a ELSE b

\* ------------------------------------------------------------ Redis lists
\* Redis index window [start, end] over n elements, negative = from the end;
\* the pair <<first, last>> is 1-based, first > last when the window is empty
Window(n, start, end) ==
    LET s == IF start < 0 THEN Max(n + start, 0) ELSE start
        e == IF end < 0 THEN n + end ELSE Min(end, n - 1)
    IN  <<s + 1, e + 1>>

LRange(l, start, end) ==
    LET w == Window(Len(l), start, end) IN SubSeq(l, w[1], w[2])

LPush(l, v) == <<v>> \o l

LTrim(l, start, end) == LRange(l, start, end)

\* LREM key 0 value: every occurrence
LRem(l, v) == SelectSeq(l, LAMBDA x : x # v)

InList(l, v) == \E i \in 1..Len(l) : l[i] = v

\* ------------------------------------------------------ Redis sorted sets
\* a sorted set is the sequence of its entries in ascending (score, member)
ZLess(a, b) == a.score < b.score \/ (a.score = b.score /\ a.member < b.member)

ZCard(z) == Len(z)

ZRem(z, m) == SelectSeq(z, LAMBDA e : e.member # m)

ZAdd(z, m, sc) ==
    LET r == ZRem(z, m)
        e == [member |-> m, score |-> sc]
        k == Cardinality({i \in 1..Len(r) : ZLess(r[i], e)})
    IN  SubSeq(r, 1, k) \o <<e>> \o SubSeq(r, k + 1, Len(r))

ZRevRange(z, start, end) ==
    LET n == Len(z)
        w == Window(n, start, end)
    IN  [i \in 1..Max(w[2] - w[1] + 1, 0) |-> z[n + 1 - (w[1] + i - 1)].member]

ZRemRangeByRank(z, min, max) ==
    LET w == Window(Len(z), min, max)
    IN  IF w[1] > w[2] THEN z
        ELSE SubSeq(z, 1, w[1] - 1) \o SubSeq(z, w[2] + 1, Len(z))

ZMembers(z) == {z[i].member : i \in 1..Len(z)}

\* ------------------------------------------------------------ Redis sets
SAdd(sets, key, m) ==
    IF key \in DOMAIN sets THEN [sets EXCEPT ![key] = @ \cup {m}] ELSE sets

SRem(sets, key, m) ==
    IF key \in DOMAIN sets THEN [sets EXCEPT ![key] = @ \ {m}] ELSE sets

\* ---------------------------------------------------------- Redis hashes
\* a keyspace of hashes is a function from the keys that exist
HDrop(h, keys) == [k \in (DOMAIN h) \ keys |-> h[k]]

HPut(h, k, v) == (k :> v) @@ h

EmptyHash == [x \in {} |-> 0]

HGetAll(h, k) == IF k \in DOMAIN h THEN h[k] ELSE EmptyHash

\* ----------------------------------------------------------- score model
HGet0(h, k) == IF k \in DOMAIN h THEN h[k] ELSE 0

scores_getter(stats) ==
    <<HGet0(stats, "comments"), HGet0(stats, "reposts"), HGet0(stats, "quotes"),
      HGet0(stats, "likes"), HGet0(stats, "dislikes"), HGet0(stats, "views")>>

\* floor(1000 * ln(x / 2)) for x = 2, 3, ...: the logarithm's operand
\* 1 + 5c + 3r + 4q + 2l + 0.5v is kept doubled so that it stays an integer
LnTable ==
    <<0, 405, 693, 916, 1098, 1252, 1386, 1504, 1609, 1704, 1791, 1871, 1945,
      2014, 2079, 2140, 2197, 2251, 2302, 2351, 2397, 2442, 2484, 2525, 2564,
      2602, 2639, 2674, 2708, 2740, 2772, 2803, 2833, 2862, 2890, 2917, 2944,
      2970, 2995, 3020, 3044, 3068, 3091, 3113, 3135, 3157, 3178, 3198, 3218,
      3238, 3258, 3277, 3295, 3314, 3332, 3349, 3367, 3384, 3401, 3417, 3433,
      3449, 3465, 3481, 3496, 3511, 3526, 3540, 3555, 3569, 3583, 3597, 3610,
      3624, 3637, 3650, 3663, 3676, 3688, 3701, 3713, 3725, 3737, 3749, 3761,
      3772, 3784, 3795, 3806, 3817, 3828, 3839, 3850, 3860, 3871, 3881, 3891,
      3901, 3912, 3921, 3931, 3941, 3951, 3960, 3970, 3979, 3988, 3998, 4007,
      4016, 4025, 4034, 4043, 4051, 4060, 4069, 4077, 4085, 4094, 4102, 4110,
      4119, 4127, 4135, 4143, 4151, 4158, 4166, 4174>>

\* floor(1000 * exp(-h / 36)) and floor(10000 * exp(-h / 12)), h = 0, 1, ...
DecayTable == <<1000, 972, 945, 920, 894, 870, 846, 823, 800>>
BoostTable == <<10000, 9200, 8464, 7788, 7165, 6592, 6065, 5580, 5134>>

\* as calculate_score, with a freshness term that is what the boost has lost
\* so far
calculate_score_growing(stats, created_at, t) ==
    LET g == scores_getter(stats)
        operand2 == 2 + 10 * g[1] + 6 * g[2] + 8 * g[3] + 4 * g[4] + g[6]
        engagement_score == LnTable[operand2 - 1]
        age_hours == t - created_at
        time_decay == DecayTable[age_hours + 1]
        freshness_boost == BoostTable[1] - BoostTable[age_hours + 1]
    IN  (engagement_score * time_decay) \div 1000 + freshness_boost

\* the score in thousandths; the clock counts whole hours, so age_hours is
\* t - created_at
calculate_score(stats, created_at, t) ==
    LET g == scores_getter(stats)
        operand2 == 2 + 10 * g[1] + 6 * g[2] + 8 * g[3] + 4 * g[4] + g[6]
        engagement_score == LnTable[operand2 - 1]
        age_hours == t - created_at
        time_decay == DecayTable[age_hours + 1]
        freshness_boost == BoostTable[age_hours + 1]
    IN  (engagement_score * time_decay) \div 1000 + freshness_boost

\* ---------------------------------------------------------- CacheManager
get_followers(S, user_id) == S.followers[user_id]

get_following(S, user_id) == S.followings[user_id]

is_following(S, user_id, follower_id) == follower_id \in S.followings[user_id]

\* as _add_post_to_gt, without the ZCARD test before the ZADD
_add_post_to_gt_uncapped(S, post_id, t) ==
    LET S1 == [S EXCEPT !.post_timestamp = HPut(@, post_id, t)]
    IN  [S1 EXCEPT !.global_timeline = ZAdd(@, post_id, 0)]

\* as _add_post_to_gt, with the ZCARD test admitting a full timeline
_add_post_to_gt_at_cap(S, post_id, t) ==
    LET S1 == [S EXCEPT !.post_timestamp = HPut(@, post_id, t)]
    IN  IF ZCard(S1.global_timeline) <= GtAmount
        THEN [S1 EXCEPT !.global_timeline = ZAdd(@, post_id, 0)]
        ELSE S1

_add_post_to_gt(S, post_id, t) ==
    LET S1 == [S EXCEPT !.post_timestamp = HPut(@, post_id, t)]
    IN  IF ZCard(S1.global_timeline) < GtAmount
        THEN [S1 EXCEPT !.global_timeline = ZAdd(@, post_id, 0)]
        ELSE S1

\* as add_post_to_ht, without the LTRIM after the LPUSH
add_post_to_ht_untrimmed(S, user_id, post_id) ==
    [S EXCEPT !.home_timeline[user_id] = LPush(@, post_id)]

add_post_to_ht(S, user_id, post_id) ==
    [S EXCEPT !.home_timeline[user_id] = LTrim(LPush(@, post_id), 0, HtEnd)]

add_post_to_ut(S, user_id, post_id) ==
    [S EXCEPT !.user_timeline[user_id] = LTrim(LPush(@, post_id), 0, UtEnd)]

_get_posts_stats(S, post_ids) ==
    [i \in 1..Len(post_ids) |-> scores_getter(HGetAll(S.post_stats, post_ids[i]))]

\* as _get_posts, without the test that drops the empty metadata hashes: an
\* id without metadata yields a view of counters only
_get_posts_unfiltered(S, post_ids) ==
    LET stats_list == _get_posts_stats(S, post_ids)
        meta(s) == IF s \in DOMAIN S.post_meta THEN S.post_meta[s]
                   ELSE [id |-> 0, author |-> 0, body |-> 0]
    IN  [i \in 1..Len(post_ids) |->
            [id |-> meta(post_ids[i]).id, author |-> meta(post_ids[i]).author,
             body |-> meta(post_ids[i]).body,
             comments |-> stats_list[i][1], reposts |-> stats_list[i][2],
             quotes |-> stats_list[i][3], likes |-> stats_list[i][4],
             dislikes |-> stats_list[i][5], views |-> stats_list[i][6]]]

\* posts keeps the non-empty metadata hashes only, stats_list has one entry
\* per requested id, and zip pairs the two by position
_get_posts(S, post_ids) ==
    LET live == SelectSeq(post_ids, LAMBDA s : s \in DOMAIN S.post_meta)
        posts == [i \in 1..Len(live) |-> S.post_meta[live[i]]]
        stats_list == _get_posts_stats(S, post_ids)
    IN  [i \in 1..Min(Len(posts), Len(stats_list)) |->
            [id |-> posts[i].id, author |-> posts[i].author, body |-> posts[i].body,
             comments |-> stats_list[i][1], reposts |-> stats_list[i][2],
             quotes |-> stats_list[i][3], likes |-> stats_list[i][4],
             dislikes |-> stats_list[i][5], views |-> stats_list[i][6]]]

\* as get_global_timeline, with the ids taken in ascending order of score
\* (ZRANGE in place of ZREVRANGE)
get_global_timeline_ascending(S, start, end) ==
    LET z == S.global_timeline
        w == Window(Len(z), start, end)
        gt_post_ids == [i \in 1..Max(w[2] - w[1] + 1, 0) |-> z[w[1] + i - 1].member]
    IN  IF gt_post_ids = <<>> THEN <<>> ELSE _get_posts(S, gt_post_ids)

get_global_timeline(S, start, end) ==
    LET gt_post_ids == ZRevRange(S.global_timeline, start, end)
    IN  IF gt_post_ids = <<>> THEN <<>> ELSE _get_posts(S, gt_post_ids)

\* as get_home_timeline, falling back to the default window of the global
\* timeline instead of the requested one
get_home_timeline_first_page(S, user_id, start, end) ==
    LET ht_post_ids == LRange(S.home_timeline[user_id], start, end)
    IN  IF ht_post_ids = <<>> THEN get_global_timeline(S, 0, ReadEnd)
        ELSE _get_posts(S, ht_post_ids)

get_home_timeline(S, user_id, start, end) ==
    LET ht_post_ids == LRange(S.home_timeline[user_id], start, end)
    IN  IF ht_post_ids = <<>> THEN get_global_timeline(S, start, end)
        ELSE _get_posts(S, ht_post_ids)

get_user_timeline(S, user_id, start, end) ==
    LET ut_post_ids == LRange(S.user_timeline[user_id], start, end)
    IN  IF ut_post_ids = <<>> THEN <<>> ELSE _get_posts(S, ut_post_ids)

get_single_post(S, post_id) == _get_posts(S, <<post_id>>)

RECURSIVE fan_out(_, _, _)
fan_out(S, fs, post_id) ==
    IF fs = {} THEN S
    ELSE LET f == CHOOSE x \in fs : TRUE
         IN  fan_out(add_post_to_ht(S, f, post_id), fs \ {f}, post_id)

\* new_post is a PostModel: [id |-> uuid, body |-> text].  The metadata hash
\* is written under f"{new_post.id}", the timelines get new_post.id.hex
create_post(S, user_id, new_post, t) ==
    LET post_mapping == [id |-> new_post.id, author |-> user_id, body |-> new_post.body]
        S1 == [S EXCEPT !.post_meta = HPut(@, Str(new_post.id), post_mapping)]
        S2 == _add_post_to_gt(S1, Hex(new_post.id), t)
    IN  fan_out(S2, get_followers(S2, user_id), Hex(new_post.id))

RECURSIVE lrem_homes(_, _, _)
lrem_homes(ht, fs, post_id) ==
    IF fs = {} THEN ht
    ELSE LET f == CHOOSE x \in fs : TRUE
         IN  lrem_homes([ht EXCEPT ![f] = LRem(@, post_id)], fs \ {f}, post_id)

\* pipe.execute() of delete_post: the ZREM, one LREM for each of the
\* followers that were read, the LREM of the author timeline and the DEL
delete_post_execute(S, post_id, user_id, followers) ==
    [S EXCEPT !.global_timeline = ZRem(@, post_id),
              !.home_timeline = lrem_homes(@, followers, post_id),
              !.user_timeline[user_id] = LRem(@, post_id),
              !.post_meta = HDrop(@, {post_id}),
              !.post_stats = HDrop(@, {post_id})]

\* as delete_post, with the home timelines of the users the author follows
\* in place of those of the author's followers
delete_post_of_following(S, post_id, user_id) ==
    LET following == get_following(S, user_id)
    IN  [S EXCEPT !.global_timeline = ZRem(@, post_id),
                  !.home_timeline = lrem_homes(@, following, post_id),
                  !.user_timeline[user_id] = LRem(@, post_id),
                  !.post_meta = HDrop(@, {post_id}),
                  !.post_stats = HDrop(@, {post_id})]

\* the queued commands run as one MULTI/EXEC; the followers are read first.
\* The third key of DEL, "post_timestamp" + post_id, is a key nothing
\* writes: the field of the "post_timestamp" hash stays
delete_post(S, post_id, user_id) ==
    delete_post_execute(S, post_id, user_id, get_followers(S, user_id))

\* the client is built with decode_responses=True: HGETALL answers str keys
\* and k.decode() raises AttributeError right after the HSET; the re-score
\* below it runs only on a client that answers bytes
update_post_stats(S, post_id, key, value, t) ==
    LET S1 == [S EXCEPT !.post_stats = HPut(@, post_id, HPut(HGetAll(@, post_id), key, value))]
        stats == HGetAll(S1.post_stats, post_id)
        created_at == IF post_id \in DOMAIN S1.post_timestamp
                      THEN S1.post_timestamp[post_id] ELSE t
        score == calculate_score(stats, created_at, t)
    IN  IF DecodeResponses
        THEN [store |-> S1, error |-> "AttributeError"]
        ELSE [store |-> [S1 EXCEPT !.global_timeline =
                            ZRemRangeByRank(ZAdd(@, post_id, score), 0, GtTrimMax)],
              error |-> "none"]

add_follower(S, user_id, follower_id) ==
    [S EXCEPT !.followers = SAdd(@, follower_id, user_id),
              !.followings = SAdd(@, user_id, follower_id)]

\* remove_follower sends its two SREMs on the client, one await each, not on
\* the pipeline it opens: each is a step of its own
srem_followings(S, user_id, follower_id) ==
    [S EXCEPT !.followings = SRem(@, user_id, follower_id)]

srem_followers(S, user_id, follower_id) ==
    [S EXCEPT !.followers = SRem(@, follower_id, user_id)]

\* as remove_follower, for a follow switch: it follows when it finds nothing
\* to remove
remove_follower_toggle(S, user_id, follower_id) ==
    IF is_following(S, user_id, follower_id)
    THEN srem_followers(srem_followings(S, user_id, follower_id), user_id, follower_id)
    ELSE add_follower(S, user_id, follower_id)

\* a remove_follower that no other call interleaves with
remove_follower(S, user_id, follower_id) ==
    srem_followers(srem_followings(S, user_id, follower_id), user_id, follower_id)

RECURSIVE delete_posts(_, _, _)
delete_posts(S, post_ids, user_id) ==
    IF post_ids = <<>> THEN S
    ELSE delete_posts(delete_post(S, Head(post_ids), user_id), Tail(post_ids), user_id)

\* the pipeline of DEL/SREM/HDEL executes first; the author timeline and the
\* follow sets are read after it; the SREMs of the two closing loops are
\* queued on the pipeline after its execute() and never sent
delete_user_profile(S, user_id, username, email) ==
    LET S1 == [S EXCEPT !.home_timeline[user_id] = <<>>,
                        !.user_timeline[user_id] = <<>>,
                        !.user_profile = HDrop(@, {user_id}),
                        !.followers[user_id] = {},
                        !.followings[user_id] = {},
                        !.profiles = @ \ {user_id},
                        !.usernames = HDrop(@, {username}),
                        !.emails = HDrop(@, {email})]
        post_ids == LRange(S1.user_timeline[user_id], 0, -1)
        S2 == delete_posts(S1, post_ids, user_id)
        followers == get_followers(S2, user_id)
        following == get_following(S2, user_id)
    IN  S2

\* UserModel.username is unique: the usernames of two rows are equal exactly
\* when the rows are the same user
db_username(u) == u

\* UserModel.email is unique as well
db_email(u) == u

\* a user id that has no row: get_or_none answers None
NoUser == [id |-> 0, username |-> 0, email |-> 0]

\* the row of user u as registration leaves it
UserModel(u) == [id |-> u, username |-> db_username(u), email |-> db_email(u)]

\* UserModel.get_or_none(id=user_id)
UserModel_get_or_none(table, user_id) == table[user_id]

\* db_user.delete()
UserModel_delete(table, user_id) == [table EXCEPT ![user_id] = NoUser]

\* Python's None
NoneValue == "None"

\* as create_user_profile, with the snapshot written by itself and the call
\* cut before the index writes
create_user_profile_snapshot_only(S, new_user) ==
    LET user_mapping ==
            ("id" :> new_user.id) @@ ("username" :> new_user.username)
                @@ ("email" :> new_user.email)
                @@ (IF new_user.avatar # NoneValue
                    THEN "avatar" :> new_user.avatar ELSE EmptyHash)
    IN  [S EXCEPT !.user_profile = HPut(@, new_user.id, user_mapping)]

\* new_user is a UserModel: [id, username, email, avatar |-> url or None].  The
\* snapshot keeps the fields that are not None; the four writes are queued on
\* one pipeline and sent by its execute(), as one MULTI/EXEC
create_user_profile(S, new_user) ==
    LET user_mapping ==
            ("id" :> new_user.id) @@ ("username" :> new_user.username)
                @@ ("email" :> new_user.email)
                @@ (IF new_user.avatar # NoneValue
                    THEN "avatar" :> new_user.avatar ELSE EmptyHash)
    IN  [S EXCEPT !.user_profile = HPut(@, new_user.id, user_mapping),
                  !.profiles = @ \cup {new_user.id},
                  !.usernames = HPut(@, new_user.username, new_user.id),
                  !.emails = HPut(@, new_user.email, "1")]

\* HGET user_profile:{user_id} avatar
get_user_avatar_url(S, user_id) ==
    IF user_id \in DOMAIN S.user_profile /\ "avatar" \in DOMAIN S.user_profile[user_id]
    THEN S.user_profile[user_id]["avatar"]
    ELSE NoneValue

\* both write the field <id> of the hash user_event:{user_id}, with the
\* value "": the hash is kept as the set of its fields
mark_post_as_viewed(S, user_id, post_id) ==
    [S EXCEPT !.user_event[user_id] = @ \cup {post_id}]

mark_comment_as_viewed(S, user_id, comment_id) ==
    [S EXCEPT !.user_event[user_id] = @ \cup {comment_id}]

\* the place of the record "user_id has viewed post post_id", and of the
\* record "user_id has viewed comment comment_id": hash and field
post_view_place(user_id, post_id) == <<"user_event", user_id, post_id>>

comment_view_place(user_id, comment_id) == <<"user_event", user_id, comment_id>>

\* whether the hash field at a place <<hash, key, field>> exists
HExists(S, place) == place[3] \in S.user_event[place[2]]

\* ------------------------------------------------------------ ORM models
\* as FollowModel.save, without the comparison of the two usernames
FollowModel_save_unchecked(table, follower, following) ==
    IF <<follower, following>> \in table
    THEN [table |-> table, error |-> "Exception"]
    ELSE [table |-> table \cup {<<follower, following>>}, error |-> "none"]

\* FollowModel.save: ValueError for equal usernames, then the insert, which
\* the unique_together constraint refuses for a row that exists
FollowModel_save(table, follower, following) ==
    IF db_username(follower) = db_username(following)
    THEN [table |-> table, error |-> "ValueError"]
    ELSE IF <<follower, following>> \in table
         THEN [table |-> table, error |-> "Exception"]
         ELSE [table |-> table \cup {<<follower, following>>}, error |-> "none"]

\* FollowModel.delete passes the related model objects, not ids, as the key
\* suffixes, so the SREMs address keys that hold nothing; it never calls
\* super().delete(), so the row stays
FollowModel_delete(S, follower, following) ==
    [S EXCEPT !.followings = SRem(@, ModelStr(following), ModelStr(follower)),
              !.followers = SRem(@, ModelStr(follower), ModelStr(following))]

\* ------------------------------------------------------- ConnectionManager
\* M is a ConnectionManager, [active_connections, ghost_connections]; Sk is
\* the sequence of the websockets accepted so far, a websocket is its index
\* in it.  None in the place of a user id or of a websocket is NoId;
\* user_ids=None is NoUserIds
NoId == 0

NoUserIds == {NoId}

connect(M, Sk, user_id) ==
    LET websocket == Len(Sk) + 1
    IN  [sockets |-> Append(Sk, [open |-> TRUE, received |-> <<>>,
                                 user_id |-> user_id, returned |-> FALSE]),
         manager |-> IF user_id # NoId
                     THEN [M EXCEPT !.active_connections = HPut(@, user_id, websocket)]
                     ELSE [M EXCEPT !.ghost_connections = Append(@, websocket)]]

\* list.remove drops the first occurrence, and a websocket is appended to the
\* list once; its ValueError is caught and logged
disconnect(M, websocket, user_id) ==
    IF user_id # NoId
    THEN [M EXCEPT !.active_connections = HDrop(@, {user_id})]
    ELSE IF websocket # NoId
         THEN [M EXCEPT !.ghost_connections = SelectSeq(@, LAMBDA w : w # websocket)]
         ELSE M

\* websocket.send_json: raises once the peer is gone
send_json(Sk, websocket, data) ==
    IF Sk[websocket].open
    THEN [sockets |-> [Sk EXCEPT ![websocket].received = Append(@, data)], error |-> "none"]
    ELSE [sockets |-> Sk, error |-> "RuntimeError"]

\* the exception of send_json is caught and logged
send_personal_message(M, Sk, user_id, data) ==
    IF user_id \in DOMAIN M.active_connections
    THEN send_json(Sk, M.active_connections[user_id], data).sockets
    ELSE Sk

\* for ghost in ghost_connections: await ghost.send_json(data), with no
\* try around it: the first exception ends the loop and the call
RECURSIVE send_to_ghosts(_, _, _)
send_to_ghosts(Sk, ghosts, data) ==
    IF ghosts = <<>> THEN [sockets |-> Sk, error |-> "none"]
    ELSE LET r == send_json(Sk, Head(ghosts), data)
         IN  IF r.error # "none" THEN r
             ELSE send_to_ghosts(r.sockets, Tail(ghosts), data)

\* with user_ids: one task of send_personal_message for each of them that is
\* in active_connections; without: the loop over the ghosts
broadcast(M, Sk, data, user_ids) ==
    IF user_ids # NoUserIds
    THEN [sockets |-> Sk, error |-> "none",
          tasks |-> {[task |-> "send_personal_message", user_id |-> u, data |-> data] :
                        u \in user_ids \cap DOMAIN M.active_connections}]
    ELSE LET r == send_to_ghosts(Sk, M.ghost_connections, data)
         IN  [sockets |-> r.sockets, error |-> r.error, tasks |-> {}]

\* ------------------------------------------------------------ taskiq tasks
\* the methods class CacheManager defines
CacheManagerMethods ==
    {"_add_post_to_gt", "get_global_timeline", "add_post_to_ht", "get_home_timeline",
     "add_post_to_ut", "get_user_timeline", "get_single_post", "update_post_stats",
     "_get_posts_stats", "_get_posts", "create_post", "delete_post", "add_follower",
     "remove_follower", "get_followers", "get_following", "is_following",
     "update_user_profile", "create_user_profile", "get_user_profile",
     "get_user_profile_by_username", "get_user_avatar_url", "delete_user_profile",
     "mark_post_as_viewed", "track_user_reaction_to_post", "mark_comment_as_viewed",
     "track_user_reaction_to_comment", "get_user_count", "exists", "get_statistics",
     "get_usernames", "set_registration_credentials", "get_registration_credentials",
     "remove_registration_credentials", "set_reset_password_credentials",
     "get_reset_password_credentials", "remove_reset_password_credentials",
     "is_someone_registering_with_this_username_and_email",
     "is_user_already_exist_with_this_username_and_email"}

DefaultAvatar == "defaults/default-avatar.jpg"

\* the task asks cache_manager for get_profile_avatar_url, a name CacheManager
\* does not define: the attribute lookup raises before anything is read.
\* With the name defined (as get_user_avatar_url is) the task goes on: a
\* missing avatar is replaced by the default one and the followers are
\* notified all the same
send_new_post_notification_task(S, M, Sk, user_id, data) ==
    IF "get_profile_avatar_url" \notin CacheManagerMethods
    THEN [sockets |-> Sk, error |-> "AttributeError", tasks |-> {}]
    ELSE LET found == get_user_avatar_url(S, user_id)
             user_avatar_url == IF found = NoneValue THEN DefaultAvatar ELSE found
             followers == get_followers(S, user_id)
         IN  broadcast(M, Sk, <<data, user_avatar_url>>, followers)

\* ---------------------------------------------------------- route handlers
\* the functions settings/my_minio.py defines
MinioFunctions ==
    {"get_object_from_minio", "put_object_to_minio", "remove_object_from_minio",
     "wipe_objects_from_minio", "minio_ready"}

\* PostModel.delete of a row that is "text" (no media) or "video": the media
\* are removed first, through remove_objects_from_minio, a name my_minio.py
\* does not define; whatever is raised before super().delete() is logged and
\* raised again as ValueError
PostModel_delete(row, minio) ==
    IF row = "video" /\ ("remove_objects_from_minio" \notin MinioFunctions \/ minio = "fails")
    THEN "ValueError"
    ELSE "none"

\* wipe_objects_from_minio: a failure of list_objects is raised as
\* ValueError; the failure of one remove_object is printed and dropped
wipe_objects_from_minio(minio) == IF minio = "fails" THEN "ValueError" ELSE "none"

\* delete_post_route: row is what PostModel.get_or_none answers, NoneValue
\* for no row; the cache delete comes after post.delete()
delete_post_route(S, post_id, user_id, row, minio) ==
    LET exc == IF row = NoneValue THEN "ValueError" ELSE PostModel_delete(row, minio)
    IN  CASE exc = "none" -> [store |-> delete_post(S, post_id, user_id), status |-> 204]
          [] exc = "ValueError" -> [store |-> S, status |-> 400]
          [] OTHER -> [store |-> S, status |-> 500]

\* delete_profile_route: the media are wiped first; then, for a user that
\* has a row, the cache is asked for delete_profile, a name CacheManager
\* does not define (it defines delete_user_profile)
delete_profile_route(S, table, user_id, minio, methods) ==
    LET db_user == UserModel_get_or_none(table, user_id)
        exc == IF wipe_objects_from_minio(minio) # "none" THEN wipe_objects_from_minio(minio)
               ELSE IF db_user = NoUser THEN "none"
               ELSE IF "delete_profile" \notin methods THEN "AttributeError"
               ELSE "none"
    IN  CASE exc = "none" ->
                [store |-> IF db_user = NoUser THEN S
                           ELSE delete_user_profile(S, user_id, db_user.username, db_user.email),
                 table |-> IF db_user = NoUser THEN table ELSE UserModel_delete(table, user_id),
                 status |-> 204]
          [] exc = "ValueError" -> [store |-> S, table |-> table, status |-> 400]
          [] OTHER -> [store |-> S, table |-> table, status |-> 500]

\* update_post_route: row is what PostModel.get_or_none(id=post_id) answers,
\* whoever the author is; the updated row is cached again through
\* create_post, with the caller as user_id
update_post_route(S, post, user_id, row, body, t) ==
    IF row = NoneValue
    THEN [store |-> S, status |-> 400]
    ELSE [store |-> create_post(S, user_id, [id |-> post, body |-> body], t), status |-> 204]

\* the except clauses of follow_route, unfollow_route, get_followers and
\* get_followings: ValueError is answered 400, every other exception 404
follow_handlers_status(exc) ==
    CASE exc = "none" -> 200
      [] exc = "ValueError" -> 400
      [] OTHER -> 404

\* the except clauses of get_home_timeline and get_global_timeline_route:
\* every exception is answered 400
timeline_handlers_status(exc) == IF exc = "none" THEN 200 ELSE 400

\* FollowModel.delete raises whatever remove_follower raises as ValueError
FollowModel_delete_error(exc) == IF exc = "none" THEN "none" ELSE "ValueError"

\* the status a handler answers when every command it sends to Redis raises
\* redis.exceptions.ConnectionError; has_row says whether unfollow_route
\* finds the follow row, whose delete() is then the first to reach Redis
status_on_store_down(handler, has_row) ==
    CASE handler \in {"follow_route", "get_followers", "get_followings"} ->
            follow_handlers_status("ConnectionError")
      [] handler = "unfollow_route" ->
            follow_handlers_status(IF has_row THEN FollowModel_delete_error("ConnectionError")
                                   ELSE "ConnectionError")
      [] handler \in {"get_home_timeline", "get_global_timeline_route"} ->
            timeline_handlers_status("ConnectionError")

\* ------------------------------------------------------------------ state
VARIABLES
    redis,         \* the Redis keyspace, one field per key family
    follow_table,  \* rows <<follower, following>> of the "follow" table
    now,           \* int(time.time()), in hours; no call of this
                   \* specification spans a change of the hour
    ops,           \* number of calls made so far
    last,          \* the call that completed last: its arguments and outcome
    inflight,      \* calls that are suspended at an await between two of
                   \* their commands, and tasks of asyncio.create_task
    manager,       \* a ConnectionManager: active_connections, ghost_connections
    sockets,       \* the websockets accepted so far: whether the peer is
                   \* still there, the payloads it was sent, the user id
                   \* its endpoint was opened with and whether that
                   \* endpoint has returned
    user_table     \* the rows of the "user" table, by id; NoUser where
                   \* there is none

vars == <<redis, follow_table, now, ops, last, inflight, manager, sockets, user_table>>

Registered == [u \in Users |-> UserModel(u)]

StatKeys == {"likes"}
Bodies == 1..MaxBodies

\* ConnectionManager.__init__
EmptyManager == [active_connections |-> EmptyHash, ghost_connections |-> <<>>]

EmptyStore ==
    [post_meta |-> EmptyHash, post_stats |-> EmptyHash, post_timestamp |-> EmptyHash,
     global_timeline |-> <<>>,
     home_timeline |-> [u \in Users |-> <<>>],
     user_timeline |-> [u \in Users |-> <<>>],
     followers |-> [u \in Users |-> {}],
     followings |-> [u \in Users |-> {}],
     user_profile |-> EmptyHash, profiles |-> {},
     user_event |-> [u \in Users |-> {}],
     usernames |-> EmptyHash, emails |-> EmptyHash,
     register |-> EmptyHash, reset_password |-> EmptyHash]

NoCall == [op |-> "none", user |-> 0, id |-> 0, status |-> 0,
           ut_before |-> <<>>, fl_before |-> {}, ht_before |-> {}, gt_before |-> <<>>,
           start |-> 0, end |-> 0, result |-> <<>>, user_ids |-> {},
           row |-> NoneValue, minio |-> "ok", store |-> "up",
           redis_before |-> EmptyStore, binds |-> FALSE, response |-> EmptyHash,
           table_before |-> <<>>]

Done(op, user, id, status) == [NoCall EXCEPT !.op = op, !.user = user, !.id = id, !.status = status]

Init ==
    /\ redis = EmptyStore
    /\ follow_table = {}
    /\ now = 0
    /\ ops = 0
    /\ last = NoCall
    /\ inflight = {}
    /\ manager = EmptyManager
    /\ sockets = <<>>
    /\ user_table = Registered

\* ---------------------------------------------------------------- actions
\* cache_manager.create_post(user_id, new_post), as update_post_route calls it
CreatePost(u, p, b) ==
    /\ ops < MaxOps /\ ops' = ops + 1
    /\ redis' = create_post(redis, u, [id |-> p, body |-> b], now)
    /\ last' = Done("create_post", u, p, 0)
    /\ UNCHANGED <<follow_table, now, inflight, manager, sockets, user_table>>

DeletePost(post_id, u) ==
    /\ ops < MaxOps /\ ops' = ops + 1
    /\ redis' = delete_post(redis, post_id, u)
    /\ last' = [Done("delete_post", u, post_id, 0) EXCEPT
                   !.ht_before = {f \in Users : InList(redis.home_timeline[f], post_id)}]
    /\ UNCHANGED <<follow_table, now, inflight, manager, sockets, user_table>>

UpdatePostStats(post_id, key, value) ==
    LET r == update_post_stats(redis, post_id, key, value, now)
    IN  /\ ops < MaxOps /\ ops' = ops + 1
        /\ redis' = r.store
        /\ last' = [Done("update_post_stats", 0, post_id, IF r.error = "none" THEN 0 ELSE 500)
                       EXCEPT !.gt_before = redis.global_timeline]
        /\ UNCHANGED <<follow_table, now, inflight, manager, sockets, user_table>>

AddPostToUt(u, post_id) ==
    /\ ops < MaxOps /\ ops' = ops + 1
    /\ redis' = add_post_to_ut(redis, u, post_id)
    /\ last' = Done("add_post_to_ut", u, post_id, 0)
    /\ UNCHANGED <<follow_table, now, inflight, manager, sockets, user_table>>

\* follow_route: the caller u asks to follow follower_id
follow_route(u, follower_id) ==
    LET r == FollowModel_save(follow_table, follower_id, u)
    IN  /\ ops < MaxOps /\ ops' = ops + 1
        /\ follow_table' = r.table
        /\ redis' = IF r.error = "none" THEN add_follower(redis, u, follower_id) ELSE redis
        /\ last' = Done("follow_route", u, follower_id,
                        CASE r.error = "none" -> 200
                          [] r.error = "ValueError" -> 400
                          [] OTHER -> 404)
        /\ UNCHANGED <<now, inflight, manager, sockets, user_table>>

unfollow_route(u, follower_id) ==
    LET S1 == IF <<follower_id, u>> \in follow_table
              THEN FollowModel_delete(redis, follower_id, u) ELSE redis
    IN  /\ ops < MaxOps /\ ops' = ops + 1
        /\ redis' = remove_follower(S1, u, follower_id)
        /\ last' = Done("unfollow_route", u, follower_id, 200)
        /\ UNCHANGED <<follow_table, now, inflight, manager, sockets, user_table>>

\* cache_manager.delete_user_profile for user u, with the username and email
\* of u's row, the arguments delete_profile_route takes from the database
DeleteUserProfile(u) ==
    /\ ops < MaxOps /\ ops' = ops + 1
    /\ redis' = delete_user_profile(redis, u, db_username(u), db_email(u))
    /\ last' = [Done("delete_user_profile", u, 0, 0) EXCEPT
                   !.ut_before = redis.user_timeline[u],
                   !.fl_before = redis.followers[u]]
    /\ UNCHANGED <<follow_table, now, inflight, manager, sockets, user_table>>

Next ==
    \/ \E u \in Users, p \in PostIds, b \in Bodies : CreatePost(u, p, b)
    \/ \E s \in IdStrings, u \in Users : DeletePost(s, u)
    \/ \E s \in IdStrings, k \in StatKeys, v \in 1..MaxCount : UpdatePostStats(s, k, v)
    \/ \E u \in Users, s \in IdStrings : AddPostToUt(u, s)
    \/ \E u \in Users, x \in Users : follow_route(u, x)
    \/ \E u \in Users, x \in Users : unfollow_route(u, x)
    \/ \E u \in Users : DeleteUserProfile(u)

Spec == Init /\ [][Next]_vars

\* ------------------------------------------------------ the follow graph
\* follows, unfollows and account deletions over the stores that posting
\* leaves
NextFollow ==
    \/ \E u \in Users, p \in PostIds, b \in Bodies : CreatePost(u, p, b)
    \/ \E u \in Users, x \in Users : follow_route(u, x)
    \/ \E u \in Users, x \in Users : unfollow_route(u, x)
    \/ \E u \in Users : DeleteUserProfile(u)

SpecFollow == Init /\ [][NextFollow]_vars

\* ------------------------------------------- a global timeline near its cap
\* create_post for the posts MaxPosts + lo .. MaxPosts + hi, in that order; the
\* range is halved, and the store is read on entry, so that the evaluation
\* nests only logarithmically deep
RECURSIVE publish_range(_, _, _)
publish_range(S, lo, hi) ==
    IF lo > hi \/ DOMAIN S = {} THEN S
    ELSE IF lo = hi
         THEN create_post(S, 1, [id |-> MaxPosts + lo, body |-> 1], 0)
         ELSE LET mid == (lo + hi) \div 2
              IN  publish_range(publish_range(S, lo, mid), mid + 1, hi)

\* the store after k earlier posts of user 1, published while nobody followed
Published(k) == publish_range(EmptyStore, 1, k)

InitCap ==
    /\ redis \in {Published(k) : k \in (GtAmount - 1)..GtAmount}
    /\ follow_table = {}
    /\ now = 0
    /\ ops = 0
    /\ last = NoCall
    /\ inflight = {}
    /\ manager = EmptyManager
    /\ sockets = <<>>
    /\ user_table = Registered

\* the calls that write the global timeline or make room in it
NextCap ==
    \/ \E u \in Users, p \in PostIds, b \in Bodies : CreatePost(u, p, b)
    \/ \E s \in IdStrings, k \in StatKeys, v \in 1..MaxCount : UpdatePostStats(s, k, v)
    \/ \E s \in IdStrings, u \in Users : DeletePost(s, u)

SpecCap == InitCap /\ [][NextCap]_vars

\* publishing into a global timeline that is full or one short of it, and
\* deleting from it
NextAdmit ==
    \/ \E u \in Users, p \in PostIds, b \in Bodies : CreatePost(u, p, b)
    \/ \E s \in IdStrings, u \in Users : DeletePost(s, u)

SpecAdmit == InitCap /\ [][NextAdmit]_vars

\* ------------------------------------------------------------ timeline reads
\* the reads are functions of the keyspace and of the window asked for: they
\* are applied to every keyspace over the ids, whatever call wrote it
RECURSIVE zadd_all(_, _)
zadd_all(z, ms) ==
    IF ms = {} THEN z
    ELSE LET m == CHOOSE x \in ms : TRUE
         IN  zadd_all(ZAdd(z, m, 0), ms \ {m})

ReadStore(M, G, h) ==
    [EmptyStore EXCEPT
        !.post_meta = [s \in M |-> [id |-> UuidOf(s), author |-> 1, body |-> 1]],
        !.post_timestamp = [s \in G |-> 0],
        !.global_timeline = zadd_all(<<>>, G),
        !.home_timeline[1] = h,
        !.user_timeline[1] = h]

\* the lists of at most two different ids
ShortLists ==
    {<<>>} \cup {<<s>> : s \in IdStrings}
           \cup {<<st[1], st[2]>> : st \in {x \in IdStrings \X IdStrings : x[1] # x[2]}}

InitRead ==
    /\ redis \in {ReadStore(M, G, h) : M \in SUBSET IdStrings,
                                       G \in SUBSET {Hex(p) : p \in PostIds},
                                       h \in ShortLists}
    /\ follow_table = {}
    /\ now = 0
    /\ ops = 0
    /\ last = NoCall
    /\ inflight = {}
    /\ manager = EmptyManager
    /\ sockets = <<>>
    /\ user_table = Registered

Starts == 0..MaxStart
Ends == Starts \cup {ReadEnd}

Read(op, user, start, end, result) ==
    [Done(op, user, 0, 200) EXCEPT !.start = start, !.end = end, !.result = result]

\* get_home_timeline route: the caller's home timeline.  A read leaves the
\* keyspace as it is, so one read of each keyspace is every read of it
GetHomeTimeline(u, start, end) ==
    /\ last = NoCall
    /\ last' = Read("get_home_timeline", u, start, end,
                    get_home_timeline(redis, u, start, end))
    /\ UNCHANGED <<redis, follow_table, now, ops, inflight, manager, sockets, user_table>>

GetGlobalTimeline(start, end) ==
    /\ last = NoCall
    /\ last' = Read("get_global_timeline", 0, start, end,
                    get_global_timeline(redis, start, end))
    /\ UNCHANGED <<redis, follow_table, now, ops, inflight, manager, sockets, user_table>>

GetUserTimeline(u, start, end) ==
    /\ last = NoCall
    /\ last' = Read("get_user_timeline", u, start, end,
                    get_user_timeline(redis, u, start, end))
    /\ UNCHANGED <<redis, follow_table, now, ops, inflight, manager, sockets, user_table>>

NextRead ==
    \/ \E u \in Users, start \in Starts, end \in Ends : GetHomeTimeline(u, start, end)
    \/ \E u \in Users, start \in Starts, end \in Ends : GetUserTimeline(u, start, end)
    \/ \E start \in Starts, end \in Ends : GetGlobalTimeline(start, end)

SpecRead == InitRead /\ [][NextRead]_vars

\* ------------------------------------------------ interleaved follow calls
\* unfollow_route up to the first SREM of remove_follower
unfollow_route_srem_followings(u, follower_id) ==
    LET S1 == IF <<follower_id, u>> \in follow_table
              THEN FollowModel_delete(redis, follower_id, u) ELSE redis
    IN  /\ ops < MaxOps /\ ops' = ops + 1
        /\ <<u, follower_id>> \notin inflight
        /\ redis' = srem_followings(S1, u, follower_id)
        /\ inflight' = inflight \cup {<<u, follower_id>>}
        /\ last' = Done("srem_followings", u, follower_id, 0)
        /\ UNCHANGED <<follow_table, now, manager, sockets, user_table>>

\* the second SREM, and the route's answer
unfollow_route_srem_followers(u, follower_id) ==
    /\ <<u, follower_id>> \in inflight
    /\ redis' = srem_followers(redis, u, follower_id)
    /\ inflight' = inflight \ {<<u, follower_id>>}
    /\ last' = Done("unfollow_route", u, follower_id, 200)
    /\ UNCHANGED <<follow_table, now, ops, manager, sockets, user_table>>

NextConc ==
    \/ \E u \in Users, x \in Users : follow_route(u, x)
    \/ \E u \in Users, x \in Users : unfollow_route_srem_followings(u, x)
    \/ \E u \in Users, x \in Users : unfollow_route_srem_followers(u, x)

SpecConc == Init /\ [][NextConc]_vars

\* ------------------------------------------------- concurrent engagement
\* An engagement event adds one to a counter of a post.  update_post_stats
\* takes the new value, not a delta, so the handler of an event reads the
\* counter and passes what it read plus one.  The read is its first step
EngagementRead(post_id, key) ==
    /\ ops < MaxOps /\ ops' = ops + 1
    /\ inflight' = inflight \cup
           {[event |-> ops, id |-> post_id, key |-> key, pc |-> "read",
             seen |-> HGet0(HGetAll(redis.post_stats, post_id), key)]}
    /\ last' = Done("engagement_read", 0, post_id, 0)
    /\ UNCHANGED <<redis, follow_table, now, manager, sockets, user_table>>

\* the second step: update_post_stats with the value computed from the read
EngagementWrite(e) ==
    LET r == update_post_stats(redis, e.id, e.key, e.seen + 1, now)
    IN  /\ e.pc = "read"
        /\ redis' = r.store
        /\ inflight' = (inflight \ {e}) \cup {[e EXCEPT !.pc = "done"]}
        /\ last' = [Done("update_post_stats", 0, e.id, IF r.error = "none" THEN 0 ELSE 500)
                       EXCEPT !.gt_before = redis.global_timeline]
        /\ UNCHANGED <<follow_table, now, ops, manager, sockets, user_table>>

NextStats ==
    \/ \E s \in IdStrings, k \in StatKeys : EngagementRead(s, k)
    \/ \E e \in inflight : EngagementWrite(e)

SpecStats == Init /\ [][NextStats]_vars

\* ------------------------------------------------------------ view events
\* track_post_view_route and track_post_comment_view_route; the ids are path
\* parameters, any id string
MarkPostAsViewed(u, post_id) ==
    /\ ops < MaxOps /\ ops' = ops + 1
    /\ redis' = mark_post_as_viewed(redis, u, post_id)
    /\ last' = Done("mark_post_as_viewed", u, post_id, 200)
    /\ UNCHANGED <<follow_table, now, inflight, manager, sockets, user_table>>

MarkCommentAsViewed(u, comment_id) ==
    /\ ops < MaxOps /\ ops' = ops + 1
    /\ redis' = mark_comment_as_viewed(redis, u, comment_id)
    /\ last' = Done("mark_comment_as_viewed", u, comment_id, 200)
    /\ UNCHANGED <<follow_table, now, inflight, manager, sockets, user_table>>

NextEvents ==
    \/ \E u \in Users, s \in IdStrings : MarkPostAsViewed(u, s)
    \/ \E u \in Users, s \in IdStrings : MarkCommentAsViewed(u, s)

SpecEvents == Init /\ [][NextEvents]_vars

\* ------------------------------------------------- profiles and new posts
Avatars == {"avatar.jpg"}

\* cache_manager.create_user_profile(new_user) for the row of user u
CreateUserProfile(u, avatar) ==
    /\ ops < MaxOps /\ ops' = ops + 1
    /\ redis' = create_user_profile(redis, [id |-> u, username |-> db_username(u),
                                             email |-> db_email(u), avatar |-> avatar])
    /\ last' = Done("create_user_profile", u, 0, 0)
    /\ UNCHANGED <<follow_table, now, inflight, manager, sockets, user_table>>

\* the worker runs send_new_post_notification_task(user_id); the payload is
\* tagged with the number of the call
SendNewPostNotificationTask(u) ==
    LET r == send_new_post_notification_task(redis, manager, sockets, u, ops)
    IN  /\ ops < MaxOps /\ ops' = ops + 1
        /\ sockets' = r.sockets
        /\ inflight' = inflight \cup r.tasks
        /\ last' = Done("send_new_post_notification_task", u, ops,
                        IF r.error = "none" THEN 0 ELSE 500)
        /\ UNCHANGED <<redis, follow_table, now, manager, user_table>>

NextProfile ==
    \/ \E u \in Users, a \in Avatars \cup {NoneValue} : CreateUserProfile(u, a)
    \/ \E u \in Users : DeleteUserProfile(u)
    \/ \E u \in Users, x \in Users : follow_route(u, x)
    \/ \E u \in Users : SendNewPostNotificationTask(u)

SpecProfile == Init /\ [][NextProfile]_vars

\* ------------------------------------------------------------- websockets
\* a client opens a websocket: new_post_notify registers it under its user
\* id, settings_metrics as a ghost (user_id = NoId)
Connect(user_id) ==
    LET r == connect(manager, sockets, user_id)
    IN  /\ Len(sockets) < MaxSockets
        /\ manager' = r.manager
        /\ sockets' = r.sockets
        /\ last' = Done("connect", user_id, Len(sockets) + 1, 0)
        /\ UNCHANGED <<redis, follow_table, now, ops, inflight, user_table>>

\* the peer goes away; the endpoint of the websocket has not yet been resumed
\* from its receive_json
PeerCloses(websocket) ==
    /\ sockets[websocket].open
    /\ sockets' = [sockets EXCEPT ![websocket].open = FALSE]
    /\ last' = Done("close", NoId, websocket, 0)
    /\ UNCHANGED <<redis, follow_table, now, ops, inflight, manager, user_table>>

\* the endpoint is resumed with WebSocketDisconnect, calls disconnect and
\* returns: new_post_notify passes the user id it was opened with and no
\* websocket, settings_metrics passes its websocket
Disconnect(websocket) ==
    LET user_id == sockets[websocket].user_id
    IN  /\ ~sockets[websocket].open
        /\ ~sockets[websocket].returned
        /\ manager' = disconnect(manager, IF user_id = NoId THEN websocket ELSE NoId, user_id)
        /\ sockets' = [sockets EXCEPT ![websocket].returned = TRUE]
        /\ last' = Done("disconnect", user_id, websocket, 0)
        /\ UNCHANGED <<redis, follow_table, now, ops, inflight, user_table>>

\* a caller awaits broadcast(data, user_ids); the payload is tagged with the
\* number of the call
Broadcast(user_ids) ==
    LET r == broadcast(manager, sockets, ops, user_ids)
    IN  /\ ops < MaxOps /\ ops' = ops + 1
        /\ sockets' = r.sockets
        /\ inflight' = inflight \cup r.tasks
        /\ last' = [Done("broadcast", NoId, ops, IF r.error = "none" THEN 0 ELSE 500)
                        EXCEPT !.user_ids = user_ids]
        /\ UNCHANGED <<redis, follow_table, now, manager, user_table>>

\* the event loop runs a task that broadcast created
RunTask(t) ==
    /\ t.task = "send_personal_message"
    /\ sockets' = send_personal_message(manager, sockets, t.user_id, t.data)
    /\ inflight' = inflight \ {t}
    /\ last' = Done("send_personal_message", t.user_id, t.data, 0)
    /\ UNCHANGED <<redis, follow_table, now, ops, manager, user_table>>

NextSockets ==
    \/ \E user_id \in Users \cup {NoId} : Connect(user_id)
    \/ \E websocket \in 1..Len(sockets) : PeerCloses(websocket)
    \/ \E websocket \in 1..Len(sockets) : Disconnect(websocket)
    \/ \E user_ids \in (SUBSET Users) \cup {NoUserIds} : Broadcast(user_ids)
    \/ \E t \in inflight : RunTask(t)

SpecSockets == Init /\ [][NextSockets]_vars

\* ---------------------------------------------------------- failing stores
PostRows == {NoneValue, "text", "video"}

UserRows == {NoneValue, "user"}

Minio == {"ok", "fails"}

StoreHandlers ==
    {"follow_route", "unfollow_route", "get_followers", "get_followings",
     "get_home_timeline", "get_global_timeline_route"}

\* DELETE /posts/{post_id} by user u; row is the answer of the database
DeletePostRoute(post_id, u, row, minio) ==
    LET r == delete_post_route(redis, post_id, u, row, minio)
    IN  /\ ops < MaxOps /\ ops' = ops + 1
        /\ redis' = r.store
        /\ last' = [Done("delete_post_route", u, post_id, r.status)
                        EXCEPT !.row = row, !.minio = minio]
        /\ UNCHANGED <<follow_table, now, inflight, manager, sockets, user_table>>

\* DELETE /profile by user u
DeleteProfileRoute(u, row, minio) ==
    LET table == IF row = NoneValue THEN [user_table EXCEPT ![u] = NoUser] ELSE user_table
        r == delete_profile_route(redis, table, u, minio, CacheManagerMethods)
    IN  /\ ops < MaxOps /\ ops' = ops + 1
        /\ redis' = r.store
        /\ last' = [Done("delete_profile_route", u, 0, r.status)
                        EXCEPT !.row = row, !.minio = minio]
        /\ UNCHANGED <<follow_table, now, inflight, manager, sockets, user_table>>

\* a request of user u to one of the handlers while Redis is unreachable;
\* follow_route has inserted its row before it reaches Redis
HandlerOnStoreDown(handler, u, x) ==
    LET saved == FollowModel_save(follow_table, x, u)
        exc == IF handler = "follow_route" /\ saved.error # "none" THEN saved.error
               ELSE "ConnectionError"
    IN  /\ ops < MaxOps /\ ops' = ops + 1
        /\ follow_table' = IF handler = "follow_route" THEN saved.table ELSE follow_table
        /\ last' = [Done(handler, u, x,
                         IF exc = "ConnectionError"
                         THEN status_on_store_down(handler, <<x, u>> \in follow_table)
                         ELSE follow_handlers_status(exc))
                        EXCEPT !.store = IF exc = "ConnectionError" THEN "down" ELSE "up"]
        /\ UNCHANGED <<redis, now, inflight, manager, sockets, user_table>>

NextRoutes ==
    \/ \E u \in Users, p \in PostIds, b \in Bodies : CreatePost(u, p, b)
    \/ \E u \in Users, a \in Avatars \cup {NoneValue} : CreateUserProfile(u, a)
    \/ \E u \in Users, x \in Users : follow_route(u, x)
    \/ \E s \in IdStrings, u \in Users, row \in PostRows, minio \in Minio :
           DeletePostRoute(s, u, row, minio)
    \/ \E u \in Users, row \in UserRows, minio \in Minio : DeleteProfileRoute(u, row, minio)
    \/ \E handler \in StoreHandlers, u \in Users, x \in Users : HandlerOnStoreDown(handler, u, x)

SpecRoutes == Init /\ [][NextRoutes]_vars

\* ------------------------------------------------------- scores over time
\* one post with its counters and its creation time in the keyspace
InitScore ==
    /\ \E stats \in [Counters -> 0..MaxCount], created_at \in 0..1 :
           /\ redis = [EmptyStore EXCEPT !.post_stats = HPut(@, Hex(1), stats),
                                         !.post_timestamp = HPut(@, Hex(1), created_at)]
           /\ now = created_at
    /\ follow_table = {}
    /\ ops = 0
    /\ last = NoCall
    /\ inflight = {}
    /\ manager = EmptyManager
    /\ sockets = <<>>
    /\ user_table = Registered

\* time.time() passes into the next hour
Tick ==
    /\ now < redis.post_timestamp[Hex(1)] + MaxAge
    /\ now' = now + 1
    /\ UNCHANGED <<redis, follow_table, ops, last, inflight, manager, sockets, user_table>>

\* calculate_score(stats, created_at) of the post, at the current time; the
\* scores computed so far are kept with their times
CalculateScore(post_id) ==
    LET score == calculate_score(HGetAll(redis.post_stats, post_id),
                                 redis.post_timestamp[post_id], now)
    IN  /\ ops < MaxOps /\ ops' = ops + 1
        /\ last' = [Done("calculate_score", 0, post_id, 0) EXCEPT
                       !.result = Append(last.result, [t |-> now, score |-> score])]
        /\ UNCHANGED <<redis, follow_table, now, inflight, manager, sockets, user_table>>

NextScore ==
    \/ Tick
    \/ \E s \in DOMAIN redis.post_timestamp : CalculateScore(s)

SpecScore == InitScore /\ [][NextScore]_vars

\* ------------------------------------------------- reads of counted posts
\* the keyspaces of the reads, with a counters hash for the ids of T
InitMerge ==
    /\ redis \in {[ReadStore(M, {}, h) EXCEPT
                       !.post_stats = [s \in T |-> ("likes" :> 1)]] :
                     M \in SUBSET IdStrings, T \in SUBSET IdStrings, h \in ShortLists}
    /\ follow_table = {}
    /\ now = 0
    /\ ops = 0
    /\ last = NoCall
    /\ inflight = {}
    /\ manager = EmptyManager
    /\ sockets = <<>>
    /\ user_table = Registered

SpecMerge == InitMerge /\ [][NextRead]_vars

\* ------------------------------------------------------ posts after fan-out
\* the state after user 2 has followed user 1 and user 1 has published post 1
InitFanned ==
    /\ redis = create_post(add_follower(EmptyStore, 2, 1), 1, [id |-> 1, body |-> 1], 0)
    /\ follow_table = FollowModel_save({}, 1, 2).table
    /\ now = 0
    /\ ops = 0
    /\ last = NoCall
    /\ inflight = {}
    /\ manager = EmptyManager
    /\ sockets = <<>>
    /\ user_table = Registered

\* PATCH /posts/{post_id} by user u with a new body
UpdatePostRoute(p, u, row, b) ==
    LET r == update_post_route(redis, p, u, row, b, now)
    IN  /\ ops < MaxOps /\ ops' = ops + 1
        /\ redis' = r.store
        /\ last' = [Done("update_post_route", u, p, r.status) EXCEPT !.row = row]
        /\ UNCHANGED <<follow_table, now, inflight, manager, sockets, user_table>>

NextFanned ==
    \/ \E u \in Users, p \in PostIds, b \in Bodies : CreatePost(u, p, b)
    \/ \E s \in IdStrings, u \in Users : DeletePost(s, u)
    \/ \E u \in Users, x \in Users : follow_route(u, x)
    \/ \E u \in Users, x \in Users : unfollow_route(u, x)
    \/ \E p \in PostIds, u \in Users, row \in PostRows \ {"video"}, b \in Bodies :
           UpdatePostRoute(p, u, row, b)

SpecFanned == InitFanned /\ [][NextFanned]_vars

\* ----------------------------------------------- a home timeline near its cap
\* add_post_to_ht(user 1, id) for the ids of the posts MaxPosts + lo ..
\* MaxPosts + hi, in that order, halved as publish_range is
RECURSIVE push_range(_, _, _)
push_range(S, lo, hi) ==
    IF lo > hi \/ DOMAIN S = {} THEN S
    ELSE IF lo = hi
         THEN add_post_to_ht(S, 1, Hex(MaxPosts + lo))
         ELSE LET mid == (lo + hi) \div 2
              IN  push_range(push_range(S, lo, mid), mid + 1, hi)

\* in this specification last.result keeps, for each user, the ids pushed
\* onto the user's home timeline so far, oldest first
InitHome ==
    /\ \E k \in (HtEnd - 1)..(HtEnd + 1) :
           /\ redis = push_range(EmptyStore, 1, k)
           /\ last = [NoCall EXCEPT !.result =
                         [u \in Users |-> IF u = 1 THEN [i \in 1..k |-> Hex(MaxPosts + i)]
                                          ELSE <<>>]]
    /\ follow_table = {}
    /\ now = 0
    /\ ops = 0
    /\ inflight = {}
    /\ manager = EmptyManager
    /\ sockets = <<>>
    /\ user_table = Registered

\* cache_manager.add_post_to_ht(user_id, post_id) with the default window
AddPostToHt(u, post_id) ==
    /\ ops < MaxOps /\ ops' = ops + 1
    /\ redis' = add_post_to_ht(redis, u, post_id)
    /\ last' = [Done("add_post_to_ht", u, post_id, 0) EXCEPT
                   !.result = [last.result EXCEPT ![u] = Append(@, post_id)]]
    /\ UNCHANGED <<follow_table, now, inflight, manager, sockets, user_table>>

NextHome == \E u \in Users, s \in IdStrings : AddPostToHt(u, s)

SpecHome == InitHome /\ [][NextHome]_vars

\* ------------------------------------------------- ranked global timelines
\* the score create_post enters a post with, and the scores
\* update_post_stats computes for a new post with 1..MaxCount likes
Scores == {0} \cup {calculate_score(("likes" :> c), 0, 0) : c \in 1..MaxCount}

RECURSIVE zadd_scored(_, _, _)
zadd_scored(z, ms, sc) ==
    IF ms = {} THEN z
    ELSE LET m == CHOOSE x \in ms : TRUE
         IN  zadd_scored(ZAdd(z, m, sc[m]), ms \ {m}, sc)

\* the global timelines that ZADD builds over the ids with these scores, the
\* ones line 110 of update_post_stats writes on a client that answers bytes;
\* at most one id is without metadata
InitRank ==
    /\ \E G \in SUBSET IdStrings :
         \E sc \in [G -> Scores] :
         \E gone \in {{}} \cup {{s} : s \in IdStrings} :
            redis = [EmptyStore EXCEPT
                        !.post_meta = [s \in IdStrings \ gone |->
                                          [id |-> UuidOf(s), author |-> 1, body |-> 1]],
                        !.post_timestamp = [s \in G |-> 0],
                        !.global_timeline = zadd_scored(<<>>, G, sc)]
    /\ follow_table = {}
    /\ now = 0
    /\ ops = 0
    /\ last = NoCall
    /\ inflight = {}
    /\ manager = EmptyManager
    /\ sockets = <<>>
    /\ user_table = Registered

NextRank == \E start \in Starts, end \in Ends : GetGlobalTimeline(start, end)

SpecRank == InitRank /\ [][NextRank]_vars

\* --------------------------------------------------------- account routes
\* the usernames and e-mail addresses a request may carry
Names == 1..(MaxUsers + 1)

\* a field an UpdateSchema leaves at its default, None
NoName == 0

\* HGETALL user_profile:{user_id}
get_user_profile(S, user_id) ==
    IF user_id \in DOMAIN S.user_profile THEN S.user_profile[user_id] ELSE EmptyHash

\* users_app/routes.py calls create_profile, get_profile and delete_profile
\* on the cache_manager it imports from settings.my_redis.  my_redis.py
\* defines neither that object nor these three names: CacheManager has
\* create_user_profile, get_user_profile and delete_user_profile, which take
\* the arguments the calls pass; the same holds of the names of the
\* registration and reset-password lookups.  binds is whether the names
\* resolve to the methods that take their arguments; where they do not, the
\* call raises AttributeError
ProfileMethods(binds) ==
    IF binds
    THEN CacheManagerMethods \cup
             {"create_profile", "get_profile", "delete_profile",
              "check_registration_existence", "is_username_exists", "is_email_exists",
              "get_forgot_password_credentials"}
    ELSE CacheManagerMethods

\* logout_route: no row, an empty answer; else delete_profile with the
\* row's username and email
logout_route(S, table, user_id, methods) ==
    LET db_user == UserModel_get_or_none(table, user_id)
    IN  IF db_user = NoUser THEN [store |-> S, status |-> 200]
        ELSE IF "delete_profile" \notin methods THEN [store |-> S, status |-> 500]
        ELSE [store |-> delete_user_profile(S, user_id, db_user.username, db_user.email),
              status |-> 200]

\* the fields of the row in the answer of a profile request
generate_profile_response(db_user) ==
    ("id" :> db_user.id) @@ ("username" :> db_user.username) @@ ("email" :> db_user.email)

\* get_profile_route: the cached snapshot when there is one; else the row,
\* which is cached on the way
get_profile_route(S, table, user_id, methods) ==
    LET user_data == get_user_profile(S, user_id)
        db_user == UserModel_get_or_none(table, user_id)
    IN  IF "get_profile" \notin methods
        THEN [store |-> S, status |-> 500, response |-> EmptyHash]
        ELSE IF user_data # EmptyHash
        THEN [store |-> S, status |-> 200, response |-> user_data]
        ELSE IF db_user = NoUser
        THEN [store |-> S, status |-> 400, response |-> EmptyHash]
        ELSE IF "create_profile" \notin methods
        THEN [store |-> S, status |-> 500, response |-> EmptyHash]
        ELSE [store |-> create_user_profile(S, [id |-> db_user.id, username |-> db_user.username,
                                                 email |-> db_user.email, avatar |-> NoneValue]),
              status |-> 200, response |-> generate_profile_response(db_user)]

\* update_profile_route for a request that carries no file: the fields that
\* are given are written to the row and saved; username and email are
\* unique columns.  No call goes to the cache
update_profile_route(table, user_id, update_schema) ==
    LET db_user == UserModel_get_or_none(table, user_id)
        updated == [db_user EXCEPT
                       !.username = IF update_schema.username # NoName
                                    THEN update_schema.username ELSE @,
                       !.email = IF update_schema.email # NoName
                                 THEN update_schema.email ELSE @]
        taken == \E v \in DOMAIN table :
                     /\ v # user_id /\ table[v] # NoUser
                     /\ \/ table[v].username = updated.username
                        \/ table[v].email = updated.email
    IN  IF db_user = NoUser
        THEN [table |-> table, status |-> 400, response |-> EmptyHash]
        ELSE IF update_schema.username = NoName /\ update_schema.email = NoName
        THEN [table |-> table, status |-> 200, response |-> generate_profile_response(db_user)]
        ELSE IF taken
        THEN [table |-> table, status |-> 500, response |-> EmptyHash]
        ELSE [table |-> [table EXCEPT ![user_id] = updated], status |-> 200,
              response |-> generate_profile_response(updated)]

Called(op, u, status, binds) ==
    [Done(op, u, 0, status) EXCEPT !.redis_before = redis, !.binds = binds,
                                   !.table_before = user_table]

LogoutRoute(u, binds) ==
    LET r == logout_route(redis, user_table, u, ProfileMethods(binds))
    IN  /\ ops < MaxOps /\ ops' = ops + 1
        /\ redis' = r.store
        /\ last' = Called("logout_route", u, r.status, binds)
        /\ UNCHANGED <<follow_table, now, inflight, manager, sockets, user_table>>

GetProfileRoute(u, binds) ==
    LET r == get_profile_route(redis, user_table, u, ProfileMethods(binds))
    IN  /\ ops < MaxOps /\ ops' = ops + 1
        /\ redis' = r.store
        /\ last' = [Called("get_profile_route", u, r.status, binds)
                        EXCEPT !.response = r.response]
        /\ UNCHANGED <<follow_table, now, inflight, manager, sockets, user_table>>

UpdateProfileRoute(u, username, email) ==
    LET r == update_profile_route(user_table, u, [username |-> username, email |-> email])
    IN  /\ ops < MaxOps /\ ops' = ops + 1
        /\ user_table' = r.table
        /\ last' = [Called("update_profile_route", u, r.status, FALSE)
                        EXCEPT !.response = r.response]
        /\ UNCHANGED <<redis, follow_table, now, inflight, manager, sockets>>

\* delete_profile_route with the object storage up
DeleteProfile(u, binds) ==
    LET r == delete_profile_route(redis, user_table, u, "ok", ProfileMethods(binds))
    IN  /\ ops < MaxOps /\ ops' = ops + 1
        /\ redis' = r.store
        /\ user_table' = r.table
        /\ last' = Called("delete_profile_route", u, r.status, binds)
        /\ UNCHANGED <<follow_table, now, inflight, manager, sockets>>

NextAccount ==
    \/ \E u \in Users, binds \in BOOLEAN : GetProfileRoute(u, binds)
    \/ \E u \in Users, n \in Names \cup {NoName}, e \in Names \cup {NoName} :
           UpdateProfileRoute(u, n, e)
    \/ \E u \in Users, binds \in BOOLEAN : LogoutRoute(u, binds)
    \/ \E u \in Users, binds \in BOOLEAN : DeleteProfile(u, binds)

SpecAccount == Init /\ [][NextAccount]_vars

\* ------------------------------------------- publishes and deletes, await by await
\* Here inflight holds one record for every call of create_post and
\* delete_post that has begun: pc is the command the call sends next, "done"
\* once it has returned; followers is what its get_followers answered

CallOf(op, u, p, pc) == [op |-> op, user |-> u, id |-> p, pc |-> pc, followers |-> {}, raced |-> FALSE]

Moved(c, pc) == (inflight \ {c}) \cup {[c EXCEPT !.pc = pc]}

Creates == {c \in inflight : c.op = "create_post"}

Deletes == {c \in inflight : c.op = "delete_post"}

\* user 2 follows user 1; the global timeline is one short of its cap
InitRace ==
    /\ redis = add_follower(Published(GtAmount - 1), 2, 1)
    /\ follow_table = FollowModel_save({}, 1, 2).table
    /\ now = 0
    /\ ops = 0
    /\ last = NoCall
    /\ inflight = {}
    /\ manager = EmptyManager
    /\ sockets = <<>>
    /\ user_table = Registered

\* create_post up to its first await: HSET post_meta.  A post id is new:
\* no other call has created it
CreatePostHset(u, p, b) ==
    /\ ops < MaxOps /\ ops' = ops + 1
    /\ \A c \in Creates : c.id # p
    /\ redis' = [redis EXCEPT !.post_meta =
                    HPut(@, Str(p), [id |-> p, author |-> u, body |-> b])]
    /\ inflight' = inflight \cup {CallOf("create_post", u, p, "hset")}
    /\ last' = Done("hset", u, p, 0)
    /\ UNCHANGED <<follow_table, now, manager, sockets, user_table>>

\* _add_post_to_gt: HSET post_timestamp
AddPostToGtHset(c) ==
    /\ c.op = "create_post" /\ c.pc = "hset"
    /\ redis' = [redis EXCEPT !.post_timestamp = HPut(@, Hex(c.id), now)]
    /\ inflight' = Moved(c, "zcard")
    /\ last' = Done("hset", c.user, c.id, 0)
    /\ UNCHANGED <<follow_table, now, ops, manager, sockets, user_table>>

\* _add_post_to_gt: the ZCARD and its comparison with amount
AddPostToGtZcard(c) ==
    /\ c.op = "create_post" /\ c.pc = "zcard"
    /\ inflight' = Moved(c, IF ZCard(redis.global_timeline) < GtAmount
                            THEN "zadd" ELSE "get_followers")
    /\ last' = Done("zcard", c.user, c.id, 0)
    /\ UNCHANGED <<redis, follow_table, now, ops, manager, sockets, user_table>>

\* _add_post_to_gt: the ZADD of a call whose ZCARD was below amount
AddPostToGtZadd(c) ==
    /\ c.op = "create_post" /\ c.pc = "zadd"
    /\ redis' = [redis EXCEPT !.global_timeline = ZAdd(@, Hex(c.id), 0)]
    /\ inflight' = Moved(c, "get_followers")
    /\ last' = Done("zadd", c.user, c.id, 0)
    /\ UNCHANGED <<follow_table, now, ops, manager, sockets, user_table>>

\* create_post: get_followers; the loop runs over its answer
CreatePostGetFollowers(c) ==
    LET followers == get_followers(redis, c.user)
    IN  /\ c.op = "create_post" /\ c.pc = "get_followers"
        /\ inflight' = (inflight \ {c}) \cup
               {[c EXCEPT !.followers = followers,
                          !.pc = IF followers = {} THEN "done" ELSE "lpush"]}
        /\ last' = Done(IF followers = {} THEN "create_post" ELSE "get_followers",
                        c.user, c.id, 0)
        /\ UNCHANGED <<redis, follow_table, now, ops, manager, sockets, user_table>>

\* add_post_to_ht for the next follower: LPUSH
AddPostToHtLpush(c) ==
    LET follower_id == CHOOSE f \in c.followers : TRUE
    IN  /\ c.op = "create_post" /\ c.pc = "lpush"
        /\ redis' = [redis EXCEPT !.home_timeline[follower_id] = LPush(@, Hex(c.id))]
        /\ inflight' = Moved(c, "ltrim")
        /\ last' = Done("lpush", c.user, c.id, 0)
        /\ UNCHANGED <<follow_table, now, ops, manager, sockets, user_table>>

\* add_post_to_ht for that follower: LTRIM; the loop goes on or the call returns
AddPostToHtLtrim(c) ==
    LET follower_id == CHOOSE f \in c.followers : TRUE
        rest == c.followers \ {follower_id}
    IN  /\ c.op = "create_post" /\ c.pc = "ltrim"
        /\ redis' = [redis EXCEPT !.home_timeline[follower_id] = LTrim(@, 0, HtEnd)]
        /\ inflight' = (inflight \ {c}) \cup
               {[c EXCEPT !.followers = rest,
                          !.pc = IF rest = {} THEN "done" ELSE "lpush"]}
        /\ last' = Done(IF rest = {} THEN "create_post" ELSE "ltrim", c.user, c.id, 0)
        /\ UNCHANGED <<follow_table, now, ops, manager, sockets, user_table>>

\* delete_post up to its await: the commands before it are queued on the
\* pipeline, get_followers is sent.  raced: the create_post of this post by
\* this author is in its loop over the followers
DeletePostGetFollowers(u, p) ==
    /\ ops < MaxOps /\ ops' = ops + 1
    /\ \A c \in Deletes : c.id # p
    /\ inflight' = inflight \cup
           {[CallOf("delete_post", u, p, "execute") EXCEPT
                !.followers = get_followers(redis, u),
                !.raced = \E c \in Creates : c.id = p /\ c.user = u
                                                 /\ c.pc \in {"lpush", "ltrim"}]}
    /\ last' = Done("get_followers", u, p, 0)
    /\ UNCHANGED <<redis, follow_table, now, manager, sockets, user_table>>

\* delete_post: pipe.execute()
DeletePostExecute(c) ==
    /\ c.op = "delete_post" /\ c.pc = "execute"
    /\ redis' = delete_post_execute(redis, Hex(c.id), c.user, c.followers)
    /\ inflight' = Moved(c, "done")
    /\ last' = Done("delete_post", c.user, c.id, 0)
    /\ UNCHANGED <<follow_table, now, ops, manager, sockets, user_table>>

NextRace ==
    \/ \E u \in Users, p \in PostIds, b \in Bodies : CreatePostHset(u, p, b)
    \/ \E c \in inflight : AddPostToGtHset(c)
    \/ \E c \in inflight : AddPostToGtZcard(c)
    \/ \E c \in inflight : AddPostToGtZadd(c)
    \/ \E c \in inflight : CreatePostGetFollowers(c)
    \/ \E c \in inflight : AddPostToHtLpush(c)
    \/ \E c \in inflight : AddPostToHtLtrim(c)
    \/ \E u \in Users, p \in PostIds : DeletePostGetFollowers(u, p)
    \/ \E c \in inflight : DeletePostExecute(c)

SpecRace == InitRace /\ [][NextRace]_vars

\* ------------------------------------------------ credentials and tokens
\* In this part now counts seconds.

\* expiry: int = 600
Expiry == 600

\* a header that is not sent
NoToken == 0

Codes == {1, 2}

\* a key written by HSET stays until it is deleted; EXPIRE gives it a time
\* to live, and it is gone once that has run out
Gone(entry, t) == entry.ttl /\ t >= entry.expire_at

HGetLive(h, k, t) == IF k \in DOMAIN h /\ ~Gone(h[k], t) THEN h[k].mapping ELSE EmptyHash

\* HSET register:{verify_token}, then EXPIRE; verify_token is uuid4().hex
set_registration_credentials(S, verify_token, username, email, code, t) ==
    [store |-> [S EXCEPT !.register =
                    HPut(@, verify_token,
                         [mapping |-> [username |-> username, email |-> email, code |-> code],
                          ttl |-> TRUE, expire_at |-> t + Expiry])],
     token |-> verify_token, expires |-> t + Expiry]

get_registration_credentials(S, verify_token, t) == HGetLive(S.register, verify_token, t)

\* HSET reset_password:{reset_password_token}; no EXPIRE follows.  The time
\* that is returned is computed from expiry
set_reset_password_credentials(S, reset_password_token, email, code, t) ==
    [store |-> [S EXCEPT !.reset_password =
                    HPut(@, reset_password_token,
                         [mapping |-> [email |-> email, code |-> code],
                          ttl |-> FALSE, expire_at |-> 0])],
     token |-> reset_password_token, expires |-> t + Expiry]

get_reset_password_credentials(S, reset_password_token, t) ==
    HGetLive(S.reset_password, reset_password_token, t)

\* EXISTS name.  name is <<prefix, rest>>; the keys that end in a token are
\* register:{token} and reset_password:{token}, and no key is a bare token
exists(S, name, t) ==
    CASE name[1] = "register:" -> HGetLive(S.register, name[2], t) # EmptyHash
      [] name[1] = "reset_password:" -> HGetLive(S.reset_password, name[2], t) # EmptyHash
      [] OTHER -> FALSE

\* SCAN register:* and compare the username and the email of each hash
is_someone_registering_with_this_username_and_email(S, username, email, t) ==
    LET pending == {HGetLive(S.register, k, t) : k \in DOMAIN S.register} \ {EmptyHash}
    IN  <<\E m \in pending : m.username = username, \E m \in pending : m.email = email>>

\* HEXISTS usernames, HEXISTS emails
is_user_already_exist_with_this_username_and_email(S, username, email) ==
    <<username \in DOMAIN S.usernames, email \in DOMAIN S.emails>>

\* register_route: the token test asks EXISTS for the header value itself
register_route(S, register_schema, verify_token, new_token, code, methods, t) ==
    LET registering == is_someone_registering_with_this_username_and_email(
                           S, register_schema.username, register_schema.email, t)
        existing == is_user_already_exist_with_this_username_and_email(
                           S, register_schema.username, register_schema.email)
        r == set_registration_credentials(S, new_token, register_schema.username,
                                          register_schema.email, code, t)
    IN  IF verify_token # NoToken /\ exists(S, <<"", verify_token>>, t)
        THEN [store |-> S, status |-> 400]
        ELSE IF {"check_registration_existence", "is_username_exists", "is_email_exists"}
                    \cap methods = {}
        THEN [store |-> S, status |-> 500]
        ELSE IF registering[1] \/ registering[2] \/ existing[1] \/ existing[2]
        THEN [store |-> S, status |-> 400]
        ELSE [store |-> r.store, status |-> 201]

\* forgot_password_route: saved is whether db_user.save() has stored the new
\* password.  The closing remove_reset_password_credentials is called with
\* the keyword forgot_password_token, which the method does not take
forgot_password_route(S, table, reset_password_token, code, methods, t) ==
    LET reset_password_data == get_reset_password_credentials(S, reset_password_token, t)
        rows == {u \in DOMAIN table : table[u] # NoUser
                                      /\ table[u].email = reset_password_data.email}
        db_user == table[CHOOSE u \in rows : TRUE]
    IN  IF reset_password_token = NoToken
        THEN [store |-> S, status |-> 400, saved |-> FALSE]
        ELSE IF "get_forgot_password_credentials" \notin methods
        THEN [store |-> S, status |-> 500, saved |-> FALSE]
        ELSE IF reset_password_data = EmptyHash
        THEN [store |-> S, status |-> 400, saved |-> FALSE]
        ELSE IF code # reset_password_data.code \/ rows = {}
        THEN [store |-> S, status |-> 400, saved |-> FALSE]
        ELSE [store |-> create_user_profile(S, [id |-> db_user.id, username |-> db_user.username,
                                                 email |-> db_user.email, avatar |-> NoneValue]),
              status |-> 500, saved |-> TRUE]

\* Here inflight holds what the callers were given: a token with the
\* expiration time returned with it; of a JWT its two claims, and what it
\* was issued as
Held(kind) == {c \in inflight : c.kind = kind}

Given(kind, token, expires) ==
    [kind |-> kind, token |-> token, expires |-> expires, sub |-> NoId, issued_as |-> ""]

SetRegistrationCredentials(username, email, code) ==
    LET r == set_registration_credentials(redis, ops + 1, username, email, code, now)
    IN  /\ ops < MaxOps /\ ops' = ops + 1
        /\ redis' = r.store
        /\ inflight' = inflight \cup {Given("verify_token", r.token, r.expires)}
        /\ last' = Called("set_registration_credentials", NoId, 0, FALSE)
        /\ UNCHANGED <<follow_table, now, manager, sockets, user_table>>

SetResetPasswordCredentials(email, code) ==
    LET r == set_reset_password_credentials(redis, ops + 1, email, code, now)
    IN  /\ ops < MaxOps /\ ops' = ops + 1
        /\ redis' = r.store
        /\ inflight' = inflight \cup {Given("reset_password_token", r.token, r.expires)}
        /\ last' = Called("set_reset_password_credentials", NoId, 0, FALSE)
        /\ UNCHANGED <<follow_table, now, manager, sockets, user_table>>

RegisterRoute(username, email, verify_token, binds) ==
    LET r == register_route(redis, [username |-> username, email |-> email], verify_token,
                            ops + 1, 1, ProfileMethods(binds), now)
    IN  /\ ops < MaxOps /\ ops' = ops + 1
        /\ redis' = r.store
        /\ inflight' = IF r.status = 201
                       THEN inflight \cup {Given("verify_token", ops + 1, now + Expiry)}
                       ELSE inflight
        /\ last' = [Called("register_route", NoId, r.status, binds) EXCEPT !.id = verify_token]
        /\ UNCHANGED <<follow_table, now, manager, sockets, user_table>>

ForgotPasswordRoute(reset_password_token, code, binds) ==
    LET r == forgot_password_route(redis, user_table, reset_password_token, code,
                                   ProfileMethods(binds), now)
    IN  /\ ops < MaxOps /\ ops' = ops + 1
        /\ redis' = r.store
        /\ last' = [Called("forgot_password_route", NoId, r.status, binds)
                        EXCEPT !.id = reset_password_token,
                               !.result = IF r.saved THEN <<"saved">> ELSE <<>>]
        /\ UNCHANGED <<follow_table, now, inflight, manager, sockets, user_table>>

\* half of the expiry goes by
Elapse ==
    /\ ops < MaxOps /\ ops' = ops + 1
    /\ now' = now + Expiry \div 2
    /\ last' = Done("sleep", NoId, 0, 0)
    /\ UNCHANGED <<redis, follow_table, inflight, manager, sockets, user_table>>

\* ----------------------------------------------------------- JWT tokens
\* settings.ACCESS_TOKEN_EXPIRE_TIME, in minutes, and
\* settings.REFRESH_TOKEN_EXPIRE_TIME, in days, as a deployment sets them
ACCESS_TOKEN_EXPIRE_TIME == 10

REFRESH_TOKEN_EXPIRE_TIME == 1

\* jwt.encode of the payload {"exp": exp, "sub": subject}: the token is its
\* payload, signed; for_refresh chooses the expiry and is not part of it
create_jwt_token(subject, for_refresh, t) ==
    LET access_exp == t + 60 * ACCESS_TOKEN_EXPIRE_TIME
        refresh_exp == t + 86400 * REFRESH_TOKEN_EXPIRE_TIME
    IN  [exp |-> IF for_refresh THEN refresh_exp ELSE access_exp, sub |-> subject]

\* every failure, the expired token among them, is raised as ValueError
verify_jwt_token(token, t) ==
    IF t > token.exp THEN [error |-> "ValueError", user_id |-> NoId]
    ELSE [error |-> "none", user_id |-> token.sub.id]

\* a request without an Authorization header
NoBearer == [kind |-> "none", issued_as |-> ""]

\* jwt_resolver: no Bearer header is 401; the ValueError of
\* verify_jwt_token is not caught and leaves the dependency
jwt_resolver(authorization, t) ==
    IF authorization.kind = "none" THEN [status |-> 401, user_id |-> NoId]
    ELSE LET jwt_credential == verify_jwt_token(authorization.token, t)
         IN  IF jwt_credential.error # "none" THEN [status |-> 500, user_id |-> NoId]
             ELSE [status |-> 200, user_id |-> jwt_credential.user_id]

\* refresh_refresh_token_route behind jwt_resolver
refresh_refresh_token_route(authorization, t) ==
    LET jwt_dependency == jwt_resolver(authorization, t)
        subject == [id |-> jwt_dependency.user_id]
    IN  IF jwt_dependency.status # 200
        THEN [status |-> jwt_dependency.status, response |-> EmptyHash]
        ELSE [status |-> 200,
              response |-> [access_token |-> create_jwt_token(subject, FALSE, t),
                            refresh_token |-> create_jwt_token(subject, TRUE, t)]]

Issued(token, issued_as) ==
    [Given("jwt", NoToken, token.exp) EXCEPT !.sub = token.sub.id, !.issued_as = issued_as]

\* the Authorization header that carries a token that was issued
Bearer(c) == [kind |-> "Bearer", token |-> [exp |-> c.expires, sub |-> [id |-> c.sub]],
              issued_as |-> c.issued_as]

\* a login answers with a pair of tokens for the user
GenerateTokenResponse(u) ==
    /\ ops < MaxOps /\ ops' = ops + 1
    /\ inflight' = inflight \cup {Issued(create_jwt_token([id |-> u], FALSE, now), "access"),
                                  Issued(create_jwt_token([id |-> u], TRUE, now), "refresh")}
    /\ last' = Done("generate_token_response", u, 0, 200)
    /\ UNCHANGED <<redis, follow_table, now, manager, sockets, user_table>>

\* POST /refresh with one of the tokens that were issued, or with none; id
\* is 1 when the token was issued as an access token, 2 as a refresh token
RefreshRefreshTokenRoute(authorization) ==
    LET r == refresh_refresh_token_route(authorization, now)
        new == IF r.status = 200
               THEN {Issued(r.response.access_token, "access"),
                     Issued(r.response.refresh_token, "refresh")}
               ELSE {}
    IN  /\ ops < MaxOps /\ ops' = ops + 1
        /\ inflight' = inflight \cup new
        /\ last' = Done("refresh_refresh_token_route", NoId,
                        IF authorization.kind = "none" THEN 0
                        ELSE IF authorization.issued_as = "access" THEN 1 ELSE 2,
                        r.status)
        /\ UNCHANGED <<redis, follow_table, now, manager, sockets, user_table>>

NextAuth ==
    \/ \E n \in Names, e \in Names, code \in Codes : SetRegistrationCredentials(n, e, code)
    \/ \E e \in Names, code \in Codes : SetResetPasswordCredentials(e, code)
    \/ \E n \in Names, e \in Names, binds \in BOOLEAN :
       \E c \in Held("verify_token") \cup {[token |-> NoToken]} :
           RegisterRoute(n, e, c.token, binds)
    \/ \E c \in Held("reset_password_token") \cup {[token |-> NoToken]},
          code \in Codes, binds \in BOOLEAN : ForgotPasswordRoute(c.token, code, binds)
    \/ \E u \in Users : GenerateTokenResponse(u)
    \/ \E c \in Held("jwt") : RefreshRefreshTokenRoute(Bearer(c))
    \/ RefreshRefreshTokenRoute(NoBearer)
    \/ Elapse

SpecAuth == Init /\ [][NextAuth]_vars

\* ------------------------------------------------------------- resync
RECURSIVE rounds_batches(_, _, _, _)
rounds_batches(task, i, rounds, batch_size) ==
    IF i >= rounds THEN <<>>
    ELSE <<[task |-> task, offset |-> i * batch_size, limit |-> batch_size]>>
             \o rounds_batches(task, i + 1, rounds, batch_size)

\* as distribute_tasks_for_model, without the batch of the remaining rows
distribute_tasks_for_model_whole_rounds(total_count, target, batch_size) ==
    LET rounds == total_count \div batch_size
        task == IF target = "redis" THEN "sync_batch_from_db_to_redis"
                ELSE "sync_batch_from_redis_to_db"
    IN  rounds_batches(task, 0, rounds, batch_size)

\* total_count is what model.all().count() answers; the result is the
\* sequence of the tasks handed to the broker, each with its offset and limit
distribute_tasks_for_model(total_count, target, batch_size) ==
    LET rounds == total_count \div batch_size
        remaining == total_count % batch_size
        task == IF target = "redis" THEN "sync_batch_from_db_to_redis"
                ELSE "sync_batch_from_redis_to_db"
    IN  rounds_batches(task, 0, rounds, batch_size)
            \o (IF remaining > 0
                THEN <<[task |-> task, offset |-> rounds * batch_size, limit |-> remaining]>>
                ELSE <<>>)

\* distribute_restore_tasks calls it for a table of total_count rows, with
\* target "redis" or "db"
DistributeTasksForModel(total_count, target, batch_size) ==
    /\ ops < MaxOps /\ ops' = ops + 1
    /\ last' = [Done("distribute_tasks_for_model", NoId, 0, 0) EXCEPT
                   !.start = total_count, !.end = batch_size,
                   !.result = distribute_tasks_for_model(total_count, target, batch_size)]
    /\ UNCHANGED <<redis, follow_table, now, inflight, manager, sockets, user_table>>

NextResync ==
    \E total_count \in 0..MaxTotal, target \in {"redis", "db"}, batch_size \in 1..MaxBatch :
        DistributeTasksForModel(total_count, target, batch_size)

SpecResync == Init /\ [][NextResync]_vars

\* ------------------------------------------------------------------ claims
HasView(posts, p) == \E i \in 1..Len(posts) : posts[i].id = p

HtCap == HtEnd + 1

\* the cached metadata of the post that id string s names gives a as author
AuthoredBy(S, s, a) ==
    /\ Str(UuidOf(s)) \in DOMAIN S.post_meta
    /\ S.post_meta[Str(UuidOf(s))].author = a

\* C1: after create_post(U, P) the home timeline read of every follower of U
\* returns a view of P
C1_FanOutComplete ==
    last.op = "create_post" =>
        \A f \in get_followers(redis, last.user) :
            HasView(get_home_timeline(redis, f, 0, HtCap), last.id)

C5_ReadAfterWrite ==
    last.op = "create_post" =>
        HasView(get_user_timeline(redis, last.user, 0, 10), last.id)

\* C7: after u unfollows a, the home timeline of u holds no post id authored
\* by a
C7_UnfollowPrunes ==
    last.op = "unfollow_route" =>
        \A i \in 1..Len(redis.home_timeline[last.user]) :
            ~AuthoredBy(redis, redis.home_timeline[last.user][i], last.id)

\* C8: after delete_user_profile(u) every id of u's author timeline is
\* deleted as by delete_post
C8_CascadeDelete ==
    last.op = "delete_user_profile" =>
        \A i \in 1..Len(last.ut_before) :
            LET s == last.ut_before[i]
            IN  /\ s \notin DOMAIN redis.post_meta
                /\ s \notin DOMAIN redis.post_stats
                /\ s \notin ZMembers(redis.global_timeline)
                /\ \A f \in last.fl_before : ~InList(redis.home_timeline[f], s)

\* C9: after delete_user_profile(u) the follow sets of u are gone and u is a
\* member of no other user's followers or followings set
C9_FollowEdgesRemoved ==
    last.op = "delete_user_profile" =>
        /\ redis.followers[last.user] = {}
        /\ redis.followings[last.user] = {}
        /\ \A v \in Users : /\ last.user \notin redis.followers[v]
                            /\ last.user \notin redis.followings[v]

\* C3: the global timeline never holds more than cap entries
C3_GlobalCap == ZCard(redis.global_timeline) <= GtAmount

\* a create_post that found the global timeline full and left the post out
C3_Witness ==
    /\ last.op = "create_post"
    /\ ZCard(redis.global_timeline) = GtAmount
    /\ Hex(last.id) \notin ZMembers(redis.global_timeline)

\* C4: with an empty home timeline list, get_home_timeline(u, start, end)
\* returns what get_global_timeline(start, end) returns for the same window
C4_HomeFallback ==
    (last.op = "get_home_timeline" /\ redis.home_timeline[last.user] = <<>>) =>
        last.result = get_global_timeline(redis, last.start, last.end)

\* a fallback read of a later window that returned posts
C4_Witness ==
    /\ last.op = "get_home_timeline"
    /\ redis.home_timeline[last.user] = <<>>
    /\ last.start > 0
    /\ last.result # <<>>

C10_FollowSymmetry ==
    \A x \in Users, y \in Users :
        x \in redis.followers[y] <=> y \in redis.followings[x]

C12_RescoreKeepsTop ==
    last.op = "update_post_stats" =>
        LET created_at == IF last.id \in DOMAIN redis.post_timestamp
                          THEN redis.post_timestamp[last.id] ELSE now
            score == calculate_score(HGetAll(redis.post_stats, last.id), created_at, now)
            upserted == ZAdd(last.gt_before, last.id, score)
            n == Len(upserted)
        IN  redis.global_timeline = SubSeq(upserted, n - Min(n, GtAmount) + 1, n)

\* C13: after B has followed A, B's home timeline list holds the id of every
\* post A had published
C13_FollowBackfills ==
    (last.op = "follow_route" /\ last.status = 200) =>
        \A p \in PostIds :
            (AuthoredBy(redis, Str(p), last.id) /\ Hex(p) \in DOMAIN redis.post_timestamp)
                => InList(redis.home_timeline[last.user], Hex(p))

\* C15: an update_post_stats(p, ...) that follows delete_post(p, author)
\* leaves p without metadata hash, counters hash and global timeline entry
C15_DeletedIsTerminal ==
    [][(last.op = "delete_post" /\ last'.op = "update_post_stats"
            /\ last'.id = last.id /\ ops' = ops + 1) =>
          /\ last.id \notin DOMAIN redis'.post_meta
          /\ last.id \notin DOMAIN redis'.post_stats
          /\ last.id \notin ZMembers(redis'.global_timeline)]_vars

\* C16: from every state and for all a and b, remove_follower(a, b) twice
\* leaves what remove_follower(a, b) once leaves
C16_IdempotentUnfollow ==
    \A a \in Users, b \in Users :
        LET once == remove_follower(redis, a, b)
        IN  remove_follower(once, a, b) = once

\* an unfollow has run, and a remove_follower of this state still removes
C16_Witness ==
    /\ last.op = "unfollow_route"
    /\ \E a \in Users, b \in Users : remove_follower(redis, a, b) # redis

\* the ids a timeline read resolves, in timeline order
TimelineIds(S, op, u, start, end) ==
    LET gt == ZRevRange(S.global_timeline, start, end)
        ht == LRange(S.home_timeline[u], start, end)
    IN  CASE op = "get_global_timeline" -> gt
          [] op = "get_home_timeline" -> IF ht = <<>> THEN gt ELSE ht
          [] op = "get_user_timeline" -> LRange(S.user_timeline[u], start, end)

\* C14: a timeline read answers without an error, with one view for each
\* resolved id that has a metadata hash, in timeline order, and none for the
\* ids that have none
C14_SoftMissing ==
    last.op \in {"get_global_timeline", "get_home_timeline", "get_user_timeline"} =>
        LET ids == TimelineIds(redis, last.op, last.user, last.start, last.end)
            live == SelectSeq(ids, LAMBDA s : s \in DOMAIN redis.post_meta)
        IN  /\ last.status = 200
            /\ Len(last.result) = Len(live)
            /\ \A i \in 1..Len(live) : last.result[i].id = redis.post_meta[live[i]].id

\* a read that resolved an id without metadata before one with metadata
C14_Witness ==
    /\ last.op \in {"get_home_timeline", "get_user_timeline"}
    /\ LET ids == TimelineIds(redis, last.op, last.user, last.start, last.end)
       IN  /\ Len(ids) = 2
           /\ ids[1] \notin DOMAIN redis.post_meta
           /\ ids[2] \in DOMAIN redis.post_meta
    /\ Len(last.result) = 1

\* C19: marking a post as viewed creates or overwrites the view record of no
\* comment
C19_NoCollision ==
    [][(last'.op = "mark_post_as_viewed" /\ ops' = ops + 1) =>
          \A u \in Users, c \in IdStrings :
              HExists(redis', comment_view_place(u, c)) =
                  HExists(redis, comment_view_place(u, c))]_vars

\* C17: when the author has no avatar, send_new_post_notification_task ends
\* without an error and notifies nobody
C17_NoAvatarNoNotification ==
    (last.op = "send_new_post_notification_task"
         /\ get_user_avatar_url(redis, last.user) = NoneValue) =>
        /\ last.status = 0
        /\ \A t \in inflight : t.data[1] # last.id

\* C18: the profile snapshot, the usernames entry and the emails entry of a
\* user are all three present or all three absent
C18_ProfileIsOneUnit ==
    \A u \in Users :
        /\ (u \in DOMAIN redis.user_profile) <=> (db_username(u) \in DOMAIN redis.usernames)
        /\ (u \in DOMAIN redis.user_profile) <=> (db_email(u) \in DOMAIN redis.emails)

\* a create_user_profile has completed and left the three
C18_Witness ==
    /\ last.op = "create_user_profile"
    /\ last.user \in DOMAIN redis.user_profile
    /\ db_username(last.user) \in DOMAIN redis.usernames
    /\ db_email(last.user) \in DOMAIN redis.emails

\* the websockets broadcast is to reach: the ghosts, or the websockets of
\* the addressed users that are connected
Recipients(user_ids) ==
    IF user_ids = NoUserIds
    THEN {manager.ghost_connections[i] : i \in 1..Len(manager.ghost_connections)}
    ELSE {manager.active_connections[u] : u \in user_ids \cap DOMAIN manager.active_connections}

\* C20: broadcast never raises to its caller, and every recipient that can
\* still be sent to has the payload or, in the addressed form, the task that
\* will send it
C20_BroadcastTolerates ==
    last.op = "broadcast" =>
        /\ last.status = 0
        /\ \A w \in Recipients(last.user_ids) :
               sockets[w].open =>
                   \/ InList(sockets[w].received, last.id)
                   \/ \E t \in inflight :
                          /\ t.data = last.id
                          /\ t.user_id \in DOMAIN manager.active_connections
                          /\ manager.active_connections[t.user_id] = w

\* C21: when the object storage fails during a post delete or a profile
\* delete of a row that exists, the caller gets no error status and the
\* cache no longer holds the post, respectively the profile
C21_MediaFailureDoesNotBlock ==
    /\ (last.op = "delete_post_route" /\ last.row = "video" /\ last.minio = "fails") =>
           (last.status < 400 /\ last.id \notin DOMAIN redis.post_meta)
    /\ (last.op = "delete_profile_route" /\ last.row = "user" /\ last.minio = "fails") =>
           (last.status < 400 /\ last.user \notin DOMAIN redis.user_profile)

\* C22: a handler that found the store unavailable answers 5xx
C22_StoreFailureIsServerError ==
    (last.op \in StoreHandlers /\ last.store = "down") => last.status >= 500

\* C23: of two scores of the same counters and creation time, the one
\* computed at the later time is not the greater
C23_ScoreDecays ==
    last.op = "calculate_score" =>
        \A i \in 1..Len(last.result), j \in 1..Len(last.result) :
            last.result[i].t < last.result[j].t =>
                last.result[j].score <= last.result[i].score

\* a post with engagement was scored twice, an hour or more apart, and the
\* later score is the smaller
C23_Witness ==
    /\ last.op = "calculate_score"
    /\ Len(last.result) >= 2
    /\ last.result[1].t < last.result[2].t
    /\ last.result[2].score < last.result[1].score
    /\ \E k \in Counters : redis.post_stats[last.id][k] > 0

\* C24: each view a timeline read returns carries the six counters stored
\* under the id it was resolved from, zero where none is stored
C24_CountersOfOwnPost ==
    last.op \in {"get_global_timeline", "get_home_timeline", "get_user_timeline"} =>
        LET ids == TimelineIds(redis, last.op, last.user, last.start, last.end)
            live == SelectSeq(ids, LAMBDA s : s \in DOMAIN redis.post_meta)
        IN  \A i \in 1..Min(Len(live), Len(last.result)) :
                <<last.result[i].comments, last.result[i].reposts, last.result[i].quotes,
                  last.result[i].likes, last.result[i].dislikes, last.result[i].views>>
                    = scores_getter(HGetAll(redis.post_stats, live[i]))

\* C25: after delete_post of a post by its author, no home timeline of any
\* user holds the id
C25_NoLingering ==
    (last.op = "delete_post" /\ AuthoredBy(redis, last.id, last.user)) =>
        \A u \in Users : ~InList(redis.home_timeline[u], last.id)

\* C27: an update_post_route of a post that is already published leaves the
\* home timelines and the global timeline as they were
C27_EditOnlyMetadata ==
    [][(last'.op = "update_post_route" /\ ops' = ops + 1 /\ last'.status = 204
            /\ Str(last'.id) \in DOMAIN redis.post_meta) =>
          /\ redis'.home_timeline = redis.home_timeline
          /\ redis'.global_timeline = redis.global_timeline]_vars

ZEntries(z) == {z[i] : i \in 1..Len(z)}

NewestFirst(h, n) == [i \in 1..Min(Len(h), n) |-> h[Len(h) + 1 - i]]

\* C29: after add_post_to_ht calls the home timeline of each user is the 60
\* ids pushed last, newest first, or all of them if fewer were pushed
C29_CappedRecencyList ==
    last.op = "add_post_to_ht" =>
        \A u \in Users :
            /\ redis.home_timeline[u] = NewestFirst(last.result[u], HtCap)
            /\ Len(redis.home_timeline[u]) <= 60

\* a push onto a home timeline that held 60 ids has dropped the oldest
C29_Witness ==
    /\ last.op = "add_post_to_ht"
    /\ Len(last.result[last.user]) > HtCap
    /\ Len(redis.home_timeline[last.user]) = HtCap
    /\ redis.home_timeline[last.user][1] = last.id

\* the score of member m of the sorted set z
ZScore(z, m) == (CHOOSE e \in ZEntries(z) : e.member = m).score

\* C30: the views get_global_timeline returns are those of the ids of the
\* asked window that have metadata, and the score of each in the global
\* timeline is not below the score of the next
C30_RankOrdered ==
    last.op = "get_global_timeline" =>
        LET ids == TimelineIds(redis, last.op, last.user, last.start, last.end)
            live == SelectSeq(ids, LAMBDA s : s \in DOMAIN redis.post_meta)
        IN  /\ Len(last.result) = Len(live)
            /\ \A i \in 1..Len(live) : last.result[i].id = redis.post_meta[live[i]].id
            /\ \A i \in 1..Len(live), j \in 1..Len(live) :
                   i < j => ZScore(redis.global_timeline, live[i])
                                >= ZScore(redis.global_timeline, live[j])

\* a read has returned two views of posts of different scores
C30_Witness ==
    /\ last.op = "get_global_timeline"
    /\ Len(last.result) >= 2
    /\ LET ids == TimelineIds(redis, last.op, last.user, last.start, last.end)
           live == SelectSeq(ids, LAMBDA s : s \in DOMAIN redis.post_meta)
       IN  /\ Len(live) >= 2
           /\ ZScore(redis.global_timeline, live[1]) > ZScore(redis.global_timeline, live[2])

C32_ReadAfterUpdate ==
    [][(/\ last.op = "update_profile_route" /\ last.status = 200
        /\ last.table_before[last.user] # user_table[last.user]
        /\ last'.op = "get_profile_route" /\ last'.user = last.user
        /\ ops' = ops + 1) =>
           /\ last'.status = 200
           /\ last'.response = generate_profile_response(user_table[last.user])]_vars

C34_CapUnderRace == ZCard(redis.global_timeline) <= GtAmount

\* C35: when delete_post(P, A) began while create_post(A, P) was in its
\* loop over A's followers, then once both have returned P is in no home
\* timeline and not in the global timeline
C35_NoDanglingAfterRace ==
    \A d \in Deletes, c \in Creates :
        (/\ d.raced /\ d.pc = "done" /\ c.pc = "done"
         /\ c.id = d.id /\ c.user = d.user) =>
            /\ \A f \in Users : ~InList(redis.home_timeline[f], Hex(d.id))
            /\ Hex(d.id) \notin ZMembers(redis.global_timeline)

\* the websocket accepted last for user u, NoId when there is none
NewestSocket(u) ==
    LET mine == {w \in 1..Len(sockets) : sockets[w].user_id = u}
    IN  IF mine = {} THEN NoId ELSE CHOOSE w \in mine : \A v \in mine : v <= w

\* C36: while the websocket accepted last for user u is open,
\* active_connections[u] is that websocket
C36_LiveStaysRegistered ==
    \A u \in Users :
        (NewestSocket(u) # NoId /\ sockets[NewestSocket(u)].open) =>
            /\ u \in DOMAIN manager.active_connections
            /\ manager.active_connections[u] = NewestSocket(u)

\* C37: once the expiration time returned with a reset-password token has
\* come, get_reset_password_credentials answers nothing for the token and
\* forgot_password_route stores no password for it
C37_ResetTokenExpires ==
    \A c \in Held("reset_password_token") :
        now >= c.expires =>
            /\ get_reset_password_credentials(redis, c.token, now) = EmptyHash
            /\ (last.op = "forgot_password_route" /\ last.id = c.token) => last.result = <<>>

C38_AccessCannotMintRefresh ==
    (last.op = "refresh_refresh_token_route" /\ last.id = 1) => last.status # 200

\* the row positions a batch reads: offset .. offset + limit - 1
BatchRange(b) == b.offset..(b.offset + b.limit - 1)

\* C40: the batches distribute_tasks_for_model enqueues read ranges that are
\* pairwise disjoint and together are exactly 0 .. total_count - 1; for an
\* empty table there is no batch
C40_BatchesPartition ==
    last.op = "distribute_tasks_for_model" =>
        LET batches == last.result
            total_count == last.start
        IN  /\ \A i, j \in 1..Len(batches) :
                   i # j => BatchRange(batches[i]) \cap BatchRange(batches[j]) = {}
            /\ UNION {BatchRange(batches[i]) : i \in 1..Len(batches)} = 0..(total_count - 1)
            /\ \A i \in 1..Len(batches) : batches[i].limit >= 1
            /\ total_count = 0 => batches = <<>>

\* a table that fills several whole batches and part of another has been
\* distributed
C40_Witness ==
    /\ last.op = "distribute_tasks_for_model"
    /\ last.start > 2 * last.end
    /\ last.start % last.end # 0
    /\ Len(last.result) >= 3

====
